---------------------------- MODULE Spec2Model ----------------------------
(***************************************************************************)
(* Rooftop modelling tool: the marker store (MarkerSync), the plan view    *)
(* (PlanCanvas) with its resize controller (ResizeBehaviour), as a state   *)
(* machine.                                                                *)
(*                                                                         *)
(* JavaScript objects are modelled with their identity where the code      *)
(* shares them: a marker object's `position` is a reference (an address    *)
(* into `heap`), so that the shallow copy `{ ...marker }` of notify() and  *)
(* subscribeMarkers() copies the marker's own fields and shares the nested *)
(* position object, exactly as the spread operator does.                   *)
(***************************************************************************)
EXTENDS Integers, Sequences, FiniteSets, TLC

VARIABLES
    markers,      \* MarkerSync: let markers: MarkerTransform[] (objects; position is an address)
    heap,         \* the position objects the store's markers refer to: address -> [x, y, z]
    listeners,    \* MarkerSync: const listeners = new Set<Listener>(), in insertion order
    seen,         \* per listener: the marker list (by value) it read when it was last called
    delivered,    \* per listener: how many times the last operation called it
    lastOp,       \* the last store operation and its arguments
    pre,          \* the store's marker list (by value) before the last upsert
    orig,         \* the store's marker list (by value) as the last store mutation left it
    subState,     \* per listener: "never" subscribed, "on" (subscribed), "off" (unsubscribed)
    planMarkers,        \* PlanCanvas: markersRef.current, id -> mesh and controller state
    selectedMarkerId,   \* PlanCanvas: selectedMarkerIdRef.current
    addCommand,         \* the addCommand prop: Null or the roof type of the last command
    addObserver,        \* the add-roof pointer observer is registered
    created,            \* how many markers the plan view has created
    pointerIsDown,      \* the primary button is held
    gesture,            \* the handle gesture under way, as it was at pointer-down
    gestures,           \* how many pointer-downs have picked a marker or a handle
    cameraAttached,     \* PlanCanvas: the plan camera's input controls are attached
    houses,             \* ModelCanvas: housesRef.current, id -> volume and HouseState
    housesBefore        \* housesRef.current before the last snapshot it was handed

storeVars == <<markers, heap, listeners>>
ghostVars == <<seen, delivered, lastOp, pre, orig, subState>>
planVars == <<planMarkers, selectedMarkerId, addCommand, addObserver, created,
              pointerIsDown, gesture, gestures, cameraAttached, houses, housesBefore>>
vars == <<markers, heap, listeners, seen, delivered, lastOp, pre, orig, subState,
          planMarkers, selectedMarkerId, addCommand, addObserver, created,
          pointerIsDown, gesture, gestures, cameraAttached, houses, housesBefore>>

---------------------------------------------------------------------------
(* Bounds                                                                  *)

MaxMarkers == 2        \* marker ids are 1..MaxMarkers
MaxGestures == 1       \* pointer-downs on a marker or a handle in one run of the plan view
MaxCallbacks == 2      \* callbacks registered on a marker's controllers besides the plan view's
MaxTicks == 2          \* ticks at which the drag of one gesture moves its marker

MarkerIds == 1..MaxMarkers

\* The two subscribers of the program: the plan view's removal sync and the
\* model view's house sync.
PlanListener == 1
ModelListener == 2
ListenerIds == {PlanListener, ModelListener}
NullId == 0            \* selectMarker(null)

RoofTypes == {"flat", "dualPitch"}

Range(s) == {s[i] : i \in DOMAIN s}

---------------------------------------------------------------------------
(* Objects                                                                 *)

\* The smallest address not in use.
NewAddr(h) == CHOOSE a \in 1..(Cardinality(DOMAIN h) + 1) : a \notin DOMAIN h

\* An object literal of type MarkerTransform with the value t: a new marker
\* object and a new nested position object.
Literal(h, t) ==
    LET a == NewAddr(h)
    IN  [obj |-> [t EXCEPT !.position = a], heap |-> (a :> t.position) @@ h]

\* A marker object read through its position reference: the value a reader sees.
Deref(m, h) == [m EXCEPT !.position = h[m.position]]

\* A marker list read through its references.
DeepValue(ms, h) == [i \in DOMAIN ms |-> Deref(ms[i], h)]

\* Addresses are opaque: after each operation the position object of the i-th
\* store entry is renamed to address i and unreachable objects are dropped.
Normalize(ms, h) ==
    [markers |-> [i \in DOMAIN ms |-> [ms[i] EXCEPT !.position = i]],
     heap    |-> [i \in DOMAIN ms |-> h[ms[i].position]]]

\* Statements in sequence: F applied to the value x has when it is reached.
Then(x, F(_)) == CHOOSE r \in {F(v) : v \in {x}} : TRUE

\* { ...a, ...b }: the fields of b over the fields of a.
Spread(a, b) ==
    [f \in (DOMAIN a) \cup (DOMAIN b) |-> IF f \in DOMAIN b THEN b[f] ELSE a[f]]

---------------------------------------------------------------------------
(* MarkerSync: the store                                                   *)

\* Array.prototype.findIndex on the id, 1-based; -1 when there is none.
findIndex(ms, id) ==
    IF \E i \in DOMAIN ms : ms[i].id = id
    THEN CHOOSE i \in DOMAIN ms :
            ms[i].id = id /\ \A j \in 1..(i - 1) : ms[j].id # id
    ELSE -1

\* (mutant) the copy loop stops one entry short
snapshotShort(ms) == [i \in 1..(Len(ms) - 1) |-> Spread(<<>>, ms[i])]

\* markers.map((marker) => ({ ...marker })): a new array of new marker
\* objects; each copy's position is the store's position object.
snapshotOf(ms) == [i \in DOMAIN ms |-> Spread(<<>>, ms[i])]

\* What a listener does with the snapshot it is handed.  The two listeners of
\* the repository (PlanCanvas removal sync, ModelCanvas house sync) only read:
\* "none".  The others are a client that writes to what it was handed.
MutKinds == {"none", "field", "nested", "array"}

Mutate(kind, snap, h) ==
    CASE kind = "field" /\ snap # <<>> ->
            \* snapshot[0].isSelected = !snapshot[0].isSelected
            [snap |-> [snap EXCEPT ![1].isSelected = ~snap[1].isSelected], heap |-> h]
      [] kind = "nested" /\ snap # <<>> ->
            \* snapshot[0].position.x = 9
            [snap |-> snap, heap |-> [h EXCEPT ![snap[1].position].x = 9]]
      [] kind = "array" /\ snap # <<>> ->
            \* snapshot.pop()
            [snap |-> SubSeq(snap, 1, Len(snap) - 1), heap |-> h]
      [] OTHER -> [snap |-> snap, heap |-> h]

\* listeners.forEach((listener) => listener(snapshot)): every listener is
\* called with the same array, in insertion order.
RECURSIVE forEachListener(_, _, _, _, _)
forEachListener(pending, snap, h, mutOf, acc) ==
    IF pending = <<>>
    THEN [heap |-> h, seen |-> acc.seen, calls |-> acc.calls]
    ELSE LET l == Head(pending)
             after == Mutate(mutOf[l], snap, h)
         IN  forEachListener(Tail(pending), after.snap, after.heap, mutOf,
                 [seen  |-> [acc.seen EXCEPT ![l] = DeepValue(snap, h)],
                  calls |-> [acc.calls EXCEPT ![l] = @ + 1]])

NoCalls == [l \in ListenerIds |-> 0]

notify(ms, h, ls, mutOf, sn) ==
    forEachListener(ls, snapshotOf(ms), h, mutOf, [seen |-> sn, calls |-> NoCalls])

\* The mutation of each exported operation, without its notify().
updateMarker(ms, marker) ==
    LET index == findIndex(ms, marker.id)
    IN  IF index # -1
        THEN [ms EXCEPT ![index] = Spread(ms[index], marker)]
        ELSE Append(ms, marker)

\* (mutant) the merge of the first store revision: the old entry's fields win
setMarkerTransformKeepOld(ms, update) ==
    LET idx == findIndex(ms, update.id)
    IN  IF idx >= 1
        THEN [ms EXCEPT ![idx] = Spread(update, ms[idx])]
        ELSE Append(ms, update)

setMarkerTransform(ms, update) ==
    LET idx == findIndex(ms, update.id)
    IN  IF idx >= 1
        THEN [ms EXCEPT ![idx] = update]
        ELSE Append(ms, update)

removeMarker(ms, id) == SelectSeq(ms, LAMBDA marker : marker.id # id)

clearMarkers(ms) == <<>>

\* (mutant) sets the flag on the match and leaves the others as they are
selectMarkerNoClear(ms, id) ==
    [i \in DOMAIN ms |-> [ms[i] EXCEPT !.isSelected = (@ \/ ms[i].id = id)]]

selectMarker(ms, id) ==
    [i \in DOMAIN ms |-> [ms[i] EXCEPT !.isSelected = (ms[i].id = id)]]

\* listeners.add(listener): a Set keeps the first insertion.
addListener(ls, l) == IF l \in Range(ls) THEN ls ELSE Append(ls, l)

\* (mutant) the returned function deletes nothing
deleteNothing(ls, l) == ls

\* listeners.delete(listener)
deleteListener(ls, l) == SelectSeq(ls, LAMBDA x : x # l)

---------------------------------------------------------------------------
(* The store driven through its exported functions by a client             *)

\* The transforms the client writes.
StoreTransforms ==
    { [id |-> i, roofType |-> "flat",
       position |-> [x |-> IF sel THEN 1 ELSE 0, y |-> 0, z |-> 0],
       rotationY |-> 0, scaleX |-> 1, scaleY |-> 1,
       widthMeters |-> 10, heightMeters |-> 10,
       isResizing |-> FALSE, isSelected |-> sel] :
      i \in MarkerIds, sel \in BOOLEAN }

NoTransform == [id |-> NullId]

NoGesture ==
    [kind |-> "none", m |-> NullId, idx |-> 0, anchor |-> [x |-> 0, y |-> 0, z |-> 0],
     sx0 |-> 0, sy0 |-> 0, r0 |-> 0, moved |-> FALSE, last |-> [x |-> 0, y |-> 0, z |-> 0],
     ticks |-> 0, p0 |-> [x |-> 0, y |-> 0, z |-> 0]]

\* The plan view before it has been given anything to do.
PlanIdle ==
    /\ planMarkers = <<>>
    /\ selectedMarkerId = NullId
    /\ addCommand = <<>>
    /\ addObserver = FALSE
    /\ created = 0
    /\ pointerIsDown = FALSE
    /\ gesture = NoGesture
    /\ gestures = 0
    /\ cameraAttached = TRUE
    /\ houses = <<>>
    /\ housesBefore = <<>>

StoreInit ==
    /\ PlanIdle
    /\ markers = <<>>
    /\ heap = <<>>
    /\ listeners = <<>>
    /\ seen = [l \in ListenerIds |-> <<>>]
    /\ delivered = NoCalls
    /\ lastOp = [op |-> "init", id |-> NullId, l |-> 0, t |-> NoTransform]
    /\ pre = <<>>
    /\ orig = <<>>
    /\ subState = [l \in ListenerIds |-> "never"]

\* A store mutation to the list ms1 (over the heap h1), its notify() and its
\* effect on the variables.
Commit(ms1, h1, mutOf, op) ==
    LET b == notify(ms1, h1, listeners, mutOf, seen)
        n == Normalize(ms1, b.heap)
    IN  /\ markers' = n.markers
        /\ heap' = n.heap
        /\ seen' = b.seen
        /\ delivered' = b.calls
        /\ lastOp' = op
        /\ pre' = IF op.t # NoTransform THEN DeepValue(markers, heap) ELSE <<>>
        /\ orig' = DeepValue(ms1, h1)
        /\ UNCHANGED <<listeners, subState>>
        /\ UNCHANGED planVars

CallSetMarkerTransform(t, mutOf) ==
    LET lit == Literal(heap, t)
    IN  Commit(setMarkerTransform(markers, lit.obj), lit.heap, mutOf,
               [op |-> "setMarkerTransform", id |-> t.id, l |-> 0, t |-> t])

CallUpdateMarker(t, mutOf) ==
    LET lit == Literal(heap, t)
    IN  Commit(updateMarker(markers, lit.obj), lit.heap, mutOf,
               [op |-> "updateMarker", id |-> t.id, l |-> 0, t |-> t])

CallRemoveMarker(id, mutOf) ==
    Commit(removeMarker(markers, id), heap, mutOf,
           [op |-> "removeMarker", id |-> id, l |-> 0, t |-> NoTransform])

CallClearMarkers(mutOf) ==
    Commit(clearMarkers(markers), heap, mutOf,
           [op |-> "clearMarkers", id |-> NullId, l |-> 0, t |-> NoTransform])

CallSelectMarker(id, mutOf) ==
    Commit(selectMarker(markers, id), heap, mutOf,
           [op |-> "selectMarker", id |-> id, l |-> 0, t |-> NoTransform])

\* subscribeMarkers(listener): add, then call the listener with a copy.
subscribeMarkers(ms, h, ls, l, mut, sn) ==
    LET snap == snapshotOf(ms)
        after == Mutate(mut, snap, h)
    IN  [listeners |-> addListener(ls, l),
         heap      |-> after.heap,
         seen      |-> [sn EXCEPT ![l] = DeepValue(snap, h)],
         calls     |-> [NoCalls EXCEPT ![l] = 1]]

CallSubscribeMarkers(l, mut) ==
    LET r == subscribeMarkers(markers, heap, listeners, l, mut, seen)
    IN  /\ listeners' = r.listeners
        /\ heap' = r.heap
        /\ seen' = r.seen
        /\ delivered' = r.calls
        /\ lastOp' = [op |-> "subscribeMarkers", id |-> NullId, l |-> l, t |-> NoTransform]
        /\ pre' = <<>>
        /\ subState' = [subState EXCEPT ![l] = "on"]
        /\ UNCHANGED <<markers, orig>>
        /\ UNCHANGED planVars

\* The function subscribeMarkers returned, called by the one who holds it.
CallUnsubscribe(l) ==
    /\ l \in Range(listeners)
    /\ listeners' = deleteListener(listeners, l)
    /\ seen' = [seen EXCEPT ![l] = <<>>]
    /\ delivered' = NoCalls
    /\ lastOp' = [op |-> "unsubscribe", id |-> NullId, l |-> l, t |-> NoTransform]
    /\ pre' = <<>>
    /\ subState' = [subState EXCEPT ![l] = "off"]
    /\ UNCHANGED <<markers, heap, orig>>
    /\ UNCHANGED planVars

ReadOnly == [l \in ListenerIds |-> "none"]

\* The store with listeners that only read what they are handed.
StoreNext ==
    \/ \E t \in StoreTransforms : CallSetMarkerTransform(t, ReadOnly)
    \/ \E t \in StoreTransforms : CallUpdateMarker(t, ReadOnly)
    \/ \E id \in MarkerIds : CallRemoveMarker(id, ReadOnly)
    \/ CallClearMarkers(ReadOnly)
    \/ \E id \in MarkerIds \cup {NullId} : CallSelectMarker(id, ReadOnly)
    \/ \E l \in ListenerIds : CallSubscribeMarkers(l, "none")
    \/ \E l \in ListenerIds : CallUnsubscribe(l)

SpecStore == StoreInit /\ [][StoreNext]_vars

\* The store with listeners that may write to what they are handed.
OneWrites(l, k) == [x \in ListenerIds |-> IF x = l THEN k ELSE "none"]

MutNext ==
    \/ \E t \in StoreTransforms, l \in ListenerIds, k \in MutKinds :
          CallSetMarkerTransform(t, OneWrites(l, k))
    \/ \E id \in MarkerIds, l \in ListenerIds, k \in MutKinds :
          CallRemoveMarker(id, OneWrites(l, k))
    \/ \E id \in MarkerIds \cup {NullId}, l \in ListenerIds, k \in MutKinds :
          CallSelectMarker(id, OneWrites(l, k))
    \/ \E l \in ListenerIds, k \in MutKinds : CallSubscribeMarkers(l, k)
    \/ \E l \in ListenerIds : CallUnsubscribe(l)

SpecStoreMut == StoreInit /\ [][MutNext]_vars

\* The first revision of the store (part_000) exports subscribeMarkers,
\* updateMarker, removeMarker and clearMarkers.  Its updateMarker:
\*   const index = markers.findIndex((marker) => marker.id === marker.id)
\* The arrow function's parameter shadows the argument, so the test compares
\* an entry's id with itself and the index is that of the first entry, -1
\* for an empty list; { ...marker, ...markers[index] } then lets the fields
\* of the old entry win.
updateMarkerFirst(ms, marker) ==
    LET index == IF \E i \in DOMAIN ms : ms[i].id = ms[i].id
                 THEN CHOOSE i \in DOMAIN ms :
                         ms[i].id = ms[i].id /\ \A j \in 1..(i - 1) : ms[j].id # ms[j].id
                 ELSE -1
    IN  IF index # -1
        THEN [ms EXCEPT ![index] = Spread(marker, ms[index])]
        ELSE Append(ms, marker)

CallUpdateMarkerFirst(t) ==
    LET lit == Literal(heap, t)
    IN  Commit(updateMarkerFirst(markers, lit.obj), lit.heap, ReadOnly,
               [op |-> "updateMarkerFirst", id |-> t.id, l |-> 0, t |-> t])

FirstNext ==
    \/ \E t \in StoreTransforms : CallUpdateMarkerFirst(t)
    \/ \E id \in MarkerIds : CallRemoveMarker(id, ReadOnly)
    \/ CallClearMarkers(ReadOnly)
    \/ \E l \in ListenerIds : CallSubscribeMarkers(l, "none")
    \/ \E l \in ListenerIds : CallUnsubscribe(l)

SpecFirst == StoreInit /\ [][FirstNext]_vars

---------------------------------------------------------------------------
(* Numbers and vectors of the plan view                                    *)

\* Lengths, scale factors and metres are fixed-point numbers: the code's
\* number times Fix.  Pointer positions are multiples of 0.25, for which
\* every product and quotient below is exact.  Directions (the marker's local
\* axes) are integer vectors: rotationY is counted in quarter turns.
Fix == 1000

BASE_WIDTH == 10
BASE_HEIGHT == 10
MIN_SIZE == 500        \* 0.5
MIN_HALF == 250        \* 0.25
PLANE_SIZE == 10000    \* CreatePlane({ width: 10, height: 10 })
MARKER_Y == 20         \* new Vector3(hitPoint.x, 0.02, hitPoint.z)
zOffset == 200         \* 0.2
dragDeltaRatio == 500  \* new MovementBehaviour(marker, 0.5)
HandleReach == 150     \* half the side of a corner handle (handleSize / 2)

Null == <<>>
Some(v) == <<v>>

Abs(a) == IF a >= 0 THEN a ELSE 0 - a
Max(a, b) == IF a >= b THEN a ELSE b
FMul(a, b) == (a * b) \div Fix

V3(x, y, z) == [x |-> x, y |-> y, z |-> z]
add(a, b) == V3(a.x + b.x, a.y + b.y, a.z + b.z)
subtract(a, b) == V3(a.x - b.x, a.y - b.y, a.z - b.z)
scale(a, k) == V3(a.x * k, a.y * k, a.z * k)
Dot(a, b) == a.x * b.x + a.y * b.y + a.z * b.z
Cross(a, b) == V3(a.y * b.z - a.z * b.y, a.z * b.x - a.x * b.z, a.x * b.y - a.y * b.x)
Up == V3(0, 1, 0)

\* cos and sin of a whole number of quarter turns
cos4(q) == CASE q % 4 = 0 -> 1 [] q % 4 = 1 -> 0 [] q % 4 = 2 -> -1 [] OTHER -> 0
sin4(q) == cos4(q + 3)

\* The marker lies flat (rotation.x = PI/2) and is turned by rotation.y about
\* the world's up axis: its local x, y and z axes in world space.
LocalX(q) == V3(cos4(q), 0, 0 - sin4(q))
LocalY(q) == V3(sin4(q), 0, cos4(q))
LocalZ == V3(0, -1, 0)

\* marker.getDirection(Vector3.Right()).normalize()
getDirectionRight(mk) == LocalX(mk.rotationY)

\* axisZ of both resize handlers: Cross(Up, axisX), a unit vector already
axisZOf(axisX) == Cross(Up, axisX)

\* The local positions createHandlesForMarker gives the handles; halfW and
\* halfH are the extendSize of the 10 x 10 plane.
halfW == PLANE_SIZE \div 2
halfH == PLANE_SIZE \div 2
cornerPositions ==
    [i \in 0..3 |->
        CASE i = 0 -> V3(0 - halfW, halfH, zOffset)
          [] i = 1 -> V3(halfW, halfH, zOffset)
          [] i = 2 -> V3(0 - halfW, 0 - halfH, zOffset)
          [] OTHER -> V3(halfW, 0 - halfH, zOffset)]
edgePositions ==
    [i \in 0..3 |->
        CASE i = 0 -> V3(0, halfH, zOffset)
          [] i = 1 -> V3(halfW, 0, zOffset)
          [] i = 2 -> V3(0, 0 - halfH, zOffset)
          [] OTHER -> V3(0 - halfW, 0, zOffset)]
oppositeCornerMap == [i \in 0..3 |-> 3 - i]

\* handle.getAbsolutePosition() of a child of the marker at the local
\* position p: the parent's scaling, rotation and position applied to p.
getAbsolutePosition(mk, p) ==
    add(mk.position,
        add(scale(LocalX(mk.rotationY), FMul(mk.scaling.x, p.x)),
            add(scale(LocalY(mk.rotationY), FMul(mk.scaling.y, p.y)),
                scale(LocalZ, p.z))))

---------------------------------------------------------------------------
(* PlanCanvas: markers, selection, the store's plan listener               *)

\* The meshes a pointer event can pick: a marker's plane (its body), its
\* corner and edge handles and its rotation handle.
CornerHandle(m, i) == [kind |-> "corner", m |-> m, i |-> i]
EdgeHandle(m, i) == [kind |-> "edge", m |-> m, i |-> i]
Body(m) == [kind |-> "body", m |-> m, i |-> 0]
RotationHandle(m) == [kind |-> "rotation", m |-> m, i |-> 0]

\* The value of a vector the drag behaviour does not read before it has
\* written it again (_targetPosition, lastDragPosition between two drags).
NoPoint == V3(0, 0, 0)

\* What the projections of the pointer on the ground return when the
\* pointer's ray does not meet the ground plane: null.
NoHit == [hit |-> FALSE]

\* rotationHandle.position = new Vector3(0, halfH + 2, zOffset)
rotationHandlePosition == V3(0, halfH + 2 * Fix, zOffset)

\* CreateRoofMarker: the marker mesh of a new roof with its handles (created
\* invisible) and its movement, rotation and resize controllers in their
\* initial state.  engineDragging and attachedToElement are the state of the
\* PointerDragBehavior the movement controller owns.
CreateRoofMarker(position, roofType) ==
    [roofType |-> roofType, position |-> position, rotationY |-> 0,
     scaling |-> [x |-> Fix, y |-> Fix], handlesOn |-> FALSE,
     isDisabled |-> FALSE, initialPickedMesh |-> Null, isDragging |-> FALSE,
     engineDragging |-> FALSE, attachedToElement |-> FALSE,
     moving |-> FALSE, targetPosition |-> NoPoint, lastDragPosition |-> NoPoint,
     dragging |-> FALSE, startRotationY |-> 0, startAngle |-> 0,
     initialMeshPosition |-> position,
     resizeAttached |-> TRUE, selectMarkerFn |-> "selectMarker",
     onDragStartCallback |-> Null, onDragEndCallback |-> Some("updateMarkerState"),
     dragStartCallbacks |-> <<>>, dragEndCallbacks |-> <<"updateMarkerState">>,
     resizeEndCallbacks |-> <<"updateMarkerState">>,
     registered |-> [moveStart |-> <<>>, moveEnd |-> <<"updateMarkerState">>,
                     rotationStart |-> <<>>, rotationEnd |-> <<"updateMarkerState">>,
                     resizeEnd |-> <<"updateMarkerState">>],
     isResizing |-> FALSE, activeCornerIndex |-> Null,
     fixedCornerWorld |-> Null, initialMarkerCenter |-> Null,
     isResizingEdge |-> FALSE, activeEdge |-> Null, resizeAxis |-> Null,
     isWidthResize |-> TRUE, fixedEdgeCenter |-> Null,
     initialScaleX |-> Fix, initialScaleY |-> Fix, initialCenterY |-> 0]

\* The state a handler works on: the plan view's markers (pm) and selected id
\* (sel), the store's list and heap (ms, h), and what the store's listeners
\* were handed (sn) and how often they were called (calls) so far.
\* cam is the plan camera's attachment; hs is the model view's house map and
\* hb that map before the last snapshot the model view was handed.
World(pm, sel, ms, h, sn) ==
    [pm |-> pm, sel |-> sel, ms |-> ms, h |-> h, sn |-> sn, calls |-> NoCalls,
     cam |-> TRUE, hs |-> <<>>, hb |-> <<>>, inv |-> <<>>]

\* updateSelectionVisuals: a marker's handles are visible and enabled
\* exactly when it is the selected one.
updateSelectionVisuals(W) ==
    [W EXCEPT !.pm = [m \in DOMAIN W.pm |-> [W.pm[m] EXCEPT !.handlesOn = (m = W.sel)]]]

\* ModelCanvas: the volume derived from a marker and its HouseState.  The
\* root createHouseRoot returns is at the origin with scaling 1.
EPS == Fix \div 1000

createHouse(roofType) ==
    [roofType |-> roofType, position |-> V3(0, 0, 0), scaling |-> V3(Fix, Fix, Fix),
     rotationY |-> 0, lastPos |-> Null, positionLocked |-> FALSE]

\* (mutant) the position follows every snapshot, resizing or not
updateHouseTransformUnlocked(house, t) ==
    [house EXCEPT !.rotationY = t.rotationY,
                  !.scaling = V3(t.scaleX, Fix, t.scaleY),
                  !.position = V3(t.position.x, 0, t.position.z),
                  !.positionLocked = t.isResizing,
                  !.lastPos = Some([x |-> t.position.x, z |-> t.position.z])]

\* (mutant) a locked house keeps its scaling as well
updateHouseTransformScaleLocked(house, t) ==
    [house EXCEPT !.rotationY = t.rotationY,
                  !.scaling = IF house.positionLocked THEN @ ELSE V3(t.scaleX, Fix, t.scaleY),
                  !.positionLocked = (@ \/ t.isResizing),
                  !.lastPos = Some([x |-> t.position.x, z |-> t.position.z])]

updateHouseTransform(house, t) ==
    LET lastPos == house.lastPos
        moved == IF lastPos = Null
                 THEN TRUE
                 ELSE \/ Abs(t.position.x - lastPos[1].x) > EPS
                      \/ Abs(t.position.z - lastPos[1].z) > EPS
        turned == [house EXCEPT !.rotationY = t.rotationY]
        sized == [turned EXCEPT !.scaling = V3(t.scaleX, Fix, t.scaleY)]
        placed == [sized EXCEPT !.position = V3(t.position.x, 0, t.position.z)]
        done == IF t.isResizing
                THEN [sized EXCEPT !.positionLocked = TRUE]
                ELSE IF house.positionLocked
                THEN IF moved THEN [placed EXCEPT !.positionLocked = FALSE] ELSE sized
                ELSE IF moved THEN placed ELSE sized
    IN  [done EXCEPT !.lastPos = Some([x |-> t.position.x, z |-> t.position.z])]

\* (mutant) a house whose roof type changed is kept and given the new type
RECURSIVE syncEachInPlace(_, _)
syncEachInPlace(ms, map) ==
    IF ms = <<>>
    THEN map
    ELSE LET marker == Head(ms)
             house == IF marker.id \notin DOMAIN map
                      THEN createHouse(marker.roofType)
                      ELSE [map[marker.id] EXCEPT !.roofType = marker.roofType]
         IN  syncEachInPlace(Tail(ms),
                             (marker.id :> updateHouseTransform(house, marker)) @@ map)

\* markers.forEach of syncHousesToMarkers: a house is created for a new id
\* and rebuilt when the roof type changed, then given the marker's transform.
RECURSIVE syncEach(_, _)
syncEach(ms, map) ==
    IF ms = <<>>
    THEN map
    ELSE LET marker == Head(ms)
             house == IF marker.id \notin DOMAIN map
                      THEN createHouse(marker.roofType)
                      ELSE IF map[marker.id].roofType # marker.roofType
                      THEN createHouse(marker.roofType)
                      ELSE map[marker.id]
         IN  syncEach(Tail(ms), (marker.id :> updateHouseTransform(house, marker)) @@ map)

\* The listener ModelCanvas subscribes: houses of ids the snapshot does not
\* hold are disposed and deleted first.
syncHousesToMarkers(ms, map) ==
    LET ids == {ms[i].id : i \in DOMAIN ms}
    IN  syncEach(ms, [id \in (DOMAIN map) \cap ids |-> map[id]])

\* (mutant) only the corner flag is reported
getIsResizingCorner(mk) == mk.isResizing

\* ResizeBehaviour.getIsResizing: the OR of the corner and the edge flag.
getIsResizing(mk) == mk.isResizing \/ mk.isResizingEdge

\* (mutant) the size in metres stays that of a new marker
markerDataOfBaseSize(W, m) ==
    LET mk == W.pm[m]
    IN  [id |-> m, roofType |-> mk.roofType,
         position |-> V3(mk.position.x, mk.position.y, mk.position.z),
         rotationY |-> mk.rotationY,
         scaleX |-> mk.scaling.x, scaleY |-> mk.scaling.y,
         widthMeters |-> 10 * Fix, heightMeters |-> 10 * Fix,
         isResizing |-> getIsResizing(mk),
         isSelected |-> (W.sel = m)]

\* The transform updateMarkerState of CreateRoofMarker reads off the mesh.
markerDataOf(W, m) ==
    LET mk == W.pm[m]
    IN  [id |-> m, roofType |-> mk.roofType,
         position |-> V3(mk.position.x, mk.position.y, mk.position.z),
         rotationY |-> mk.rotationY,
         scaleX |-> mk.scaling.x, scaleY |-> mk.scaling.y,
         widthMeters |-> mk.scaling.x * BASE_WIDTH,
         heightMeters |-> mk.scaling.y * BASE_HEIGHT,
         isResizing |-> getIsResizing(mk),
         isSelected |-> (W.sel = m)]

\* The model view's listener: the house map before and after the snapshot.
houseSync(W, snap) ==
    [W EXCEPT !.hb = W.hs, !.hs = syncHousesToMarkers(DeepValue(snap, W.h), W.hs)]

\* A listener is called with snap: what it read and how often it was called.
called(W, l, snap) == [W EXCEPT !.sn[l] = DeepValue(snap, W.h), !.calls[l] = @ + 1]

\* The removal sync called from inside itself, by a broadcast that its own
\* detach of a dragged marker set off.  One marker is dragged at a time and
\* that marker is in the snapshot of that broadcast, so the markers removed
\* here have no drag to release: they are detached, disposed and forgotten
\* without another store write.
removalSyncNested(W, snap) ==
    LET markerIds == {snap[i].id : i \in DOMAIN snap}
        W1 == [W EXCEPT !.pm = [m \in (DOMAIN W.pm) \cap markerIds |-> W.pm[m]]]
    IN  IF W1.sel # NullId /\ W1.sel \notin markerIds
        THEN updateSelectionVisuals([W1 EXCEPT !.sel = NullId])
        ELSE W1

RECURSIVE callListenersNested(_, _, _)
callListenersNested(pending, snap, W) ==
    IF pending = <<>>
    THEN W
    ELSE LET l == Head(pending)
             W1 == called(W, l, snap)
         IN  Then(IF l = PlanListener THEN removalSyncNested(W1, snap) ELSE houseSync(W1, snap),
                  LAMBDA W2 : callListenersNested(Tail(pending), snap, W2))

\* updateMarkerState called while the removal sync runs
updateMarkerStateNested(W, ls, m) ==
    LET lit == Literal(W.h, markerDataOf(W, m))
        W1 == [W EXCEPT !.ms = setMarkerTransform(W.ms, lit.obj), !.h = lit.heap]
    IN  callListenersNested(ls, snapshotOf(W1.ms), W1)

\* A callback registered on one of marker m's controllers runs for the event
\* c; inv keeps which callbacks ran in the handler, in order.  The plan
\* view's callback is updateMarkerState; any other does nothing else.
invoked(W, c, cb) == [W EXCEPT !.inv = Append(@, <<c, cb>>)]

RECURSIVE callbacksNested(_, _, _, _, _)
callbacksNested(W, ls, m, c, cbs) ==
    IF cbs = <<>>
    THEN W
    ELSE Then(IF Head(cbs) = "updateMarkerState"
              THEN updateMarkerStateNested(invoked(W, c, Head(cbs)), ls, m)
              ELSE invoked(W, c, Head(cbs)),
              LAMBDA W1 : callbacksNested(W1, ls, m, c, Tail(cbs)))

\* if (this.onDragEndCallback) this.onDragEndCallback(), while the removal
\* sync runs
onDragEndCallbackNested(W, ls, m) ==
    callbacksNested(W, ls, m, "moveEnd", W.pm[m].onDragEndCallback)

\* PointerDragBehavior.releaseDrag() of marker m's movement controller: a
\* drag under way ends and the controller's drag-end observer runs (isDragging
\* = false, then the callback PlanCanvas registered, updateMarkerState); the
\* camera controls the behaviour detached are attached again.
releaseDrag(W, ls, m, onDragEndCallback(_, _, _)) ==
    Then(IF W.pm[m].engineDragging
         THEN onDragEndCallback(
                  [W EXCEPT !.pm[m] = [@ EXCEPT !.engineDragging = FALSE,
                                                !.isDragging = FALSE,
                                                !.moving = FALSE,
                                                !.targetPosition = NoPoint,
                                                !.lastDragPosition = NoPoint]],
                  ls, m)
         ELSE W,
         LAMBDA W1 : IF W1.pm[m].attachedToElement
                     THEN [W1 EXCEPT !.cam = TRUE, !.pm[m].attachedToElement = FALSE]
                     ELSE W1)

\* MovementBehaviour.detach(): the drag behaviour's detach() releases the drag.
movementDetach(W, ls, m) == releaseDrag(W, ls, m, onDragEndCallbackNested)

\* RotationBehaviour.detach()
rotationDetach(W, m) == [W EXCEPT !.pm[m].dragging = FALSE]

\* ResizeBehaviour.detach()
resizeDetach(W, m) ==
    [W EXCEPT !.pm[m] = [@ EXCEPT !.resizeAttached = FALSE,
                                  !.isResizing = FALSE, !.isResizingEdge = FALSE]]

\* toRemove.forEach of the removal sync: a marker the plan view still holds
\* has its controllers detached, is disposed and forgotten.
RECURSIVE removeEach(_, _, _)
removeEach(toRemove, W, ls) ==
    IF toRemove = <<>>
    THEN W
    ELSE LET markerId == Head(toRemove)
         IN  IF markerId \in DOMAIN W.pm
             THEN Then(movementDetach(W, ls, markerId),
                       LAMBDA W1 :
                           LET W2 == resizeDetach(rotationDetach(W1, markerId), markerId)
                           IN  removeEach(Tail(toRemove),
                                   [W2 EXCEPT !.pm = [x \in (DOMAIN W2.pm) \ {markerId} |->
                                                         W2.pm[x]]],
                                   ls))
             ELSE removeEach(Tail(toRemove), W, ls)

\* The plan view's markers in creation order.
RECURSIVE idsFrom(_, _)
idsFrom(m, pm) ==
    IF m > MaxMarkers
    THEN <<>>
    ELSE IF m \in DOMAIN pm THEN <<m>> \o idsFrom(m + 1, pm) ELSE idsFrom(m + 1, pm)

\* The listener PlanCanvas subscribes: markers of the plan view that the
\* snapshot does not hold are detached, disposed and forgotten; a selected id
\* that the snapshot does not hold is cleared.
removalSync(W, ls, snap) ==
    LET markerIds == {snap[i].id : i \in DOMAIN snap}
        toRemove == SelectSeq(idsFrom(1, W.pm), LAMBDA markerId : markerId \notin markerIds)
    IN  Then(removeEach(toRemove, W, ls),
             LAMBDA W1 : IF W1.sel # NullId /\ W1.sel \notin markerIds
                         THEN updateSelectionVisuals([W1 EXCEPT !.sel = NullId])
                         ELSE W1)

\* listeners.forEach((listener) => listener(snapshot)) with the program's
\* listeners: the plan view's removal sync and the model view's house sync.
\* Every listener is handed the snapshot taken before the first of them ran.
RECURSIVE callListeners(_, _, _, _)
callListeners(pending, snap, W, ls) ==
    IF pending = <<>>
    THEN W
    ELSE LET l == Head(pending)
             W1 == called(W, l, snap)
         IN  Then(IF l = PlanListener THEN removalSync(W1, ls, snap) ELSE houseSync(W1, snap),
                  LAMBDA W2 : callListeners(Tail(pending), snap, W2, ls))

notifyAll(W, ls) == callListeners(ls, snapshotOf(W.ms), W, ls)

\* The store functions PlanCanvas calls, with their broadcast.
storeSelectMarker(W, ls, id) ==
    notifyAll([W EXCEPT !.ms = selectMarker(W.ms, id)], ls)

storeSetMarkerTransform(W, ls, t) ==
    LET lit == Literal(W.h, t)
    IN  notifyAll([W EXCEPT !.ms = setMarkerTransform(W.ms, lit.obj), !.h = lit.heap], ls)

storeRemoveMarker(W, ls, id) ==
    notifyAll([W EXCEPT !.ms = removeMarker(W.ms, id)], ls)

storeClearMarkers(W, ls) ==
    notifyAll([W EXCEPT !.ms = clearMarkers(W.ms)], ls)

\* PlanCanvas.selectMarker(markerId)
PlanCanvas_selectMarker(W, ls, markerId) ==
    storeSelectMarker(updateSelectionVisuals([W EXCEPT !.sel = markerId]), ls, markerId)

\* this.selectMarkerFn(this.markerId) of a resize controller: the function its
\* constructor was given, which in CreateRoofMarker is the plan view's
\* selectMarker.
selectMarkerFn(W, ls, m) ==
    IF W.pm[m].selectMarkerFn = "selectMarker"
    THEN PlanCanvas_selectMarker(W, ls, m)
    ELSE W

\* updateMarkerState of CreateRoofMarker: publish the mesh's transform.
updateMarkerState(W, ls, m) == storeSetMarkerTransform(W, ls, markerDataOf(W, m))

\* callbacks.forEach((cb) => cb()) for the event c of a controller of marker m
RECURSIVE forEachCallback(_, _, _, _, _)
forEachCallback(W, ls, m, c, cbs) ==
    IF cbs = <<>>
    THEN W
    ELSE Then(IF Head(cbs) = "updateMarkerState"
              THEN updateMarkerState(invoked(W, c, Head(cbs)), ls, m)
              ELSE invoked(W, c, Head(cbs)),
              LAMBDA W1 : forEachCallback(W1, ls, m, c, Tail(cbs)))

\* if (this.onDragStartCallback) this.onDragStartCallback() and
\* if (this.onDragEndCallback) this.onDragEndCallback(): the one callback the
\* Movement controller keeps for the event, if it has one.
onDragStartCallback(W, m) ==
    forEachCallback(W, <<>>, m, "moveStart", W.pm[m].onDragStartCallback)
onDragEndCallback(W, ls, m) ==
    forEachCallback(W, ls, m, "moveEnd", W.pm[m].onDragEndCallback)

\* onDragStart, onDragEnd and onResizeEnd of the three controllers: Movement
\* keeps the callback in a field, Rotation and Resize push it on an array.
\* registered keeps every callback the method was handed, in order.
register(mk, c, cb) ==
    LET noted == [mk EXCEPT !.registered[c] = Append(@, cb)]
    IN  CASE c = "moveStart" -> [noted EXCEPT !.onDragStartCallback = Some(cb)]
          [] c = "moveEnd" -> [noted EXCEPT !.onDragEndCallback = Some(cb)]
          [] c = "rotationStart" -> [noted EXCEPT !.dragStartCallbacks = Append(@, cb)]
          [] c = "rotationEnd" -> [noted EXCEPT !.dragEndCallbacks = Append(@, cb)]
          [] c = "resizeEnd" -> [noted EXCEPT !.resizeEndCallbacks = Append(@, cb)]

\* (mutant) the placement leaves the selection as it was
placeMarkerKeepSelection(W, ls, id, roofType, hitPoint) ==
    LET position == V3(hitPoint.x, MARKER_Y, hitPoint.z)
        W2 == updateSelectionVisuals(
                  [W EXCEPT !.pm = (id :> CreateRoofMarker(position, roofType)) @@ W.pm])
        mk == W2.pm[id]
    IN  storeSetMarkerTransform(W2, ls,
            [id |-> id, roofType |-> roofType,
             position |-> V3(mk.position.x, mk.position.y, mk.position.z),
             rotationY |-> mk.rotationY,
             scaleX |-> mk.scaling.x, scaleY |-> mk.scaling.y,
             widthMeters |-> 10 * Fix, heightMeters |-> 10 * Fix,
             isResizing |-> FALSE, isSelected |-> TRUE])

\* The add-roof observer's placement at the ground point hitPoint.
placeMarker(W, ls, id, roofType, hitPoint) ==
    LET position == V3(hitPoint.x, MARKER_Y, hitPoint.z)
        W1 == [W EXCEPT !.pm = (id :> CreateRoofMarker(position, roofType)) @@ W.pm,
                        !.sel = id]
        W2 == updateSelectionVisuals(W1)
        mk == W2.pm[id]
    IN  storeSetMarkerTransform(W2, ls,
            [id |-> id, roofType |-> roofType,
             position |-> V3(mk.position.x, mk.position.y, mk.position.z),
             rotationY |-> mk.rotationY,
             scaleX |-> mk.scaling.x, scaleY |-> mk.scaling.y,
             widthMeters |-> 10 * Fix, heightMeters |-> 10 * Fix,
             isResizing |-> FALSE, isSelected |-> TRUE])

---------------------------------------------------------------------------
(* MovementBehaviour, RotationBehaviour and ResizeBehaviour: the pointer    *)
(* observers of a marker                                                   *)

\* MovementBehaviour's pointer observer.  PlanCanvas sets no selection
\* callback, so pointer-down only records the picked mesh.
movementPointerDown(W, m, pick) == [W EXCEPT !.pm[m].initialPickedMesh = pick]
movementPointerUp(W, m) == [W EXCEPT !.pm[m].initialPickedMesh = Null]

\* (mutant) every drag the behaviour starts counts as a drag of the marker
dragStartsAnywhere(mk, m) == TRUE

\* The drag-start observer's test: this.initialPickedMesh === this.mesh
dragStartsOnMesh(mk, m) == mk.initialPickedMesh = Some(Body(m))

\* The PointerDragBehavior of marker m, POINTERDOWN: a pick of the marker or
\* of one of its children (every handle is one) starts a drag, which runs the
\* controller's drag-start observer (PlanCanvas registers no start callback)
\* and, with detachCameraControls, detaches the camera controls if they are
\* attached.
dragPointerDown(W, m, pick, hitPoint) ==
    IF pick = Null \/ pick[1].m # m \/ W.pm[m].engineDragging \/ hitPoint = NoHit
    THEN W
    ELSE LET mk == W.pm[m]
             W1 == [W EXCEPT !.pm[m] =
                           [mk EXCEPT !.engineDragging = TRUE,
                                      !.lastDragPosition = hitPoint,
                                      !.isDragging = (@ \/ dragStartsOnMesh(mk, m)),
                                      !.targetPosition = mk.position,
                                      !.attachedToElement = W.cam],
                       !.cam = FALSE]
         IN  IF dragStartsOnMesh(mk, m) THEN onDragStartCallback(W1, m) ELSE W1

\* The PointerDragBehavior of marker m, POINTERMOVE while it drags
\* (_moveDrag): the target moves by what the pointer moved on the drag plane.
dragPointerMove(W, m, hitPoint) ==
    LET mk == W.pm[m]
    IN  IF ~mk.engineDragging \/ hitPoint = NoHit
        THEN W
        ELSE LET dragDelta == subtract(hitPoint, mk.lastDragPosition)
             IN  [W EXCEPT !.pm[m] =
                     [mk EXCEPT !.moving = TRUE,
                                !.targetPosition = add(mk.targetPosition, dragDelta),
                                !.lastDragPosition = hitPoint]]

\* The meshes addExcludedMeshes gave the Movement controller of marker m:
\* its corner, edge and rotation handles.
excludedMeshes(m) ==
    {CornerHandle(m, i) : i \in 0..3} \cup {EdgeHandle(m, i) : i \in 0..3}
        \cup {RotationHandle(m)}

\* (mutant) a drag under way is validated whatever is under the pointer
validateDragWhileDragging(mk, m, pickedMesh) ==
    IF mk.isDisabled
    THEN FALSE
    ELSE IF mk.initialPickedMesh # Null /\ mk.initialPickedMesh[1] \in excludedMeshes(m)
    THEN FALSE
    ELSE IF mk.isDragging
    THEN TRUE
    ELSE pickedMesh = Some(Body(m))

\* (mutant) the mesh picked at pointer-down is not looked at
validateDragAnyStart(mk, m, pickedMesh) ==
    IF mk.isDisabled
    THEN FALSE
    ELSE IF pickedMesh = Null
    THEN FALSE
    ELSE IF mk.isDragging
    THEN TRUE
    ELSE pickedMesh = Some(Body(m))

\* MovementBehaviour's validateDrag; pickedMesh is what scene.pick finds
\* under the pointer when it is called.
validateDrag(mk, m, pickedMesh) ==
    IF mk.isDisabled
    THEN FALSE
    ELSE IF mk.initialPickedMesh # Null /\ mk.initialPickedMesh[1] \in excludedMeshes(m)
    THEN FALSE
    ELSE IF pickedMesh = Null
    THEN FALSE
    ELSE IF mk.isDragging
    THEN TRUE
    ELSE IF pickedMesh # Some(Body(m))
    THEN FALSE
    ELSE TRUE

\* The ground point p is under the plane of the marker mk.
overBody(mk, p) ==
    LET d == subtract(p, mk.position)
    IN  /\ Abs(Dot(d, LocalX(mk.rotationY))) <= FMul(mk.scaling.x, halfW)
        /\ Abs(Dot(d, LocalY(mk.rotationY))) <= FMul(mk.scaling.y, halfH)

\* The ground point p is under the handle of mk at the local position c; a
\* handle keeps its size whatever the marker's scale, reach is half its side.
overHandle(mk, c, reach, p) ==
    LET a == getAbsolutePosition(mk, c)
    IN  Abs(p.x - a.x) <= reach /\ Abs(p.z - a.z) <= reach

handlePosition(h) ==
    IF h.kind = "corner" THEN cornerPositions[h.i]
    ELSE IF h.kind = "edge" THEN edgePositions[h.i]
    ELSE rotationHandlePosition

\* scene.pick at the ground point p, seen from above: the planes of the
\* markers lie over the handles, which are zOffset below them and can be
\* picked only while they are visible.
scenePick(pm, p) ==
    LET bodies == {m \in DOMAIN pm : overBody(pm[m], p)}
        handles == {h \in UNION {excludedMeshes(m) : m \in DOMAIN pm} :
                       /\ pm[h.m].handlesOn
                       /\ overHandle(pm[h.m], handlePosition(h),
                                     IF h.kind = "rotation" THEN 2 * HandleReach
                                     ELSE HandleReach, p)}
    IN  IF bodies # {}
        THEN Some(Body(CHOOSE m \in bodies : \A n \in bodies : m <= n))
        ELSE IF handles # {}
        THEN Some(CHOOSE h \in handles : TRUE)
        ELSE Null

\* The PointerDragBehavior's before-render observer: while the pointer has
\* moved in this drag the mesh goes dragDeltaRatio of the way to the target,
\* if validateDrag accepts the new position.
dragBeforeRender(W, m) ==
    LET mk == W.pm[m]
        step == V3(FMul(mk.targetPosition.x - mk.position.x, dragDeltaRatio), 0,
                   FMul(mk.targetPosition.z - mk.position.z, dragDeltaRatio))
    IN  IF mk.moving /\ validateDrag(mk, m, scenePick(W.pm, mk.lastDragPosition))
        THEN [W EXCEPT !.pm[m].position = add(mk.position, step)]
        ELSE W

\* The PointerDragBehavior of marker m, POINTERUP
dragPointerUp(W, ls, m) ==
    IF W.pm[m].engineDragging THEN releaseDrag(W, ls, m, onDragEndCallback) ELSE W

\* Math.atan2(z, x) in quarter turns, for a vector along one of the axes.
atan2(z, x) ==
    CASE z = 0 /\ x >= 0 -> 0
      [] x = 0 /\ z > 0 -> 1
      [] z = 0 /\ x < 0 -> 2
      [] x = 0 /\ z < 0 -> -1

\* RotationBehaviour.computeAngleFromPoint
computeAngleFromPoint(mk, worldPoint) ==
    LET center == mk.position
        v == subtract(worldPoint, center)
    IN  atan2(v.z, v.x)

\* (mutant) the rotation follows the pointer's angular delta
rotationWith(startRotationY, delta) == startRotationY + delta

\* this.mesh.rotation.y = this.startRotationY - delta
rotationFrom(startRotationY, delta) == startRotationY - delta

\* Rotation observer, POINTERDOWN with the pointer over the ground point
\* hitPoint.  PlanCanvas registers no drag-start callback.
rotationPointerDown(W, m, pick, hitPoint) ==
    IF pick # Some(RotationHandle(m))
    THEN W
    ELSE LET mk == W.pm[m]
         IN  forEachCallback(
                 [W EXCEPT !.pm[m] =
                           [mk EXCEPT !.dragging = TRUE,
                                      !.startRotationY = mk.rotationY,
                                      !.initialMeshPosition = mk.position,
                                      !.startAngle =
                                          IF hitPoint = NoHit THEN mk.startAngle
                                          ELSE computeAngleFromPoint(mk, hitPoint)],
                       !.cam = FALSE],
                 <<>>, m, "rotationStart", mk.dragStartCallbacks)

\* (mutant) the first pointer-move handled ends the rotation gesture
rotationPointerMoveOnce(W, m, hitPoint) ==
    LET mk == W.pm[m]
    IN  IF ~mk.dragging \/ hitPoint = NoHit
        THEN W
        ELSE [W EXCEPT !.pm[m] =
                 [mk EXCEPT !.rotationY = mk.startRotationY
                                - (computeAngleFromPoint(mk, hitPoint) - mk.startAngle),
                            !.position = mk.initialMeshPosition,
                            !.dragging = FALSE]]

\* Rotation observer, POINTERMOVE
rotationPointerMove(W, m, hitPoint) ==
    LET mk == W.pm[m]
    IN  IF ~mk.dragging \/ hitPoint = NoHit
        THEN W
        ELSE LET currentAngle == computeAngleFromPoint(mk, hitPoint)
                 delta == currentAngle - mk.startAngle
             IN  [W EXCEPT !.pm[m] =
                     [mk EXCEPT !.rotationY = rotationFrom(mk.startRotationY, delta),
                                !.position = mk.initialMeshPosition]]

\* Rotation observer, POINTERUP and POINTERDOUBLETAP: the drag-end callback
\* PlanCanvas registered is updateMarkerState.
rotationPointerUp(W, ls, m) ==
    IF ~W.pm[m].dragging
    THEN W
    ELSE forEachCallback([W EXCEPT !.pm[m].dragging = FALSE], ls, m,
                         "rotationEnd", W.pm[m].dragEndCallbacks)

\* (mutant) no floor on the extent
fullWorldNoFloor(proj) == Abs(proj)

\* Math.max(Math.abs(proj), MIN_SIZE)
fullWorldOf(proj) == Max(Abs(proj), MIN_SIZE)

\* let newHalf = absT / 2; if (newHalf < MIN_HALF) newHalf = MIN_HALF
newHalfOf(absT) == IF absT \div 2 < MIN_HALF THEN MIN_HALF ELSE absT \div 2

\* (mutant) the centre always goes to the positive side of the anchor
signPositive(a) == 1

signOf(a) == IF a >= 0 THEN 1 ELSE -1

\* (mutant) the gesture starts whether or not the marker is selected
cornerPointerDownUnchecked(W, ls, m, pick) ==
    IF pick = Null \/ pick[1].kind # "corner" \/ pick[1].m # m
    THEN W
    ELSE LET W1 == selectMarkerFn(W, ls, m)
             mk == W1.pm[m]
         IN  [W1 EXCEPT !.pm[m] =
                 [mk EXCEPT !.isResizing = TRUE,
                            !.activeCornerIndex = Some(pick[1].i),
                            !.isDisabled = TRUE,
                            !.fixedCornerWorld =
                                Some(getAbsolutePosition(mk,
                                         cornerPositions[oppositeCornerMap[pick[1].i]])),
                            !.initialMarkerCenter = Some(mk.position)]]

\* Corner observer, POINTERDOWN
cornerPointerDown(W, ls, m, pick) ==
    IF pick = Null \/ pick[1].kind # "corner" \/ pick[1].m # m
    THEN W
    ELSE LET idx == pick[1].i
             W1 == selectMarkerFn(W, ls, m)
         IN  IF W1.sel # m
             THEN W1
             ELSE LET mk == W1.pm[m]
                      oppositeIdx == oppositeCornerMap[idx]
                  IN  [W1 EXCEPT !.pm[m] =
                          [mk EXCEPT !.isResizing = TRUE,
                                     !.activeCornerIndex = Some(idx),
                                     !.isDisabled = TRUE,
                                     !.fixedCornerWorld =
                                         Some(getAbsolutePosition(mk, cornerPositions[oppositeIdx])),
                                     !.initialMarkerCenter = Some(mk.position)]]

\* (mutant) the gesture ends without its resize-end callbacks
cornerPointerUpSilent(W, ls, m) ==
    IF W.pm[m].isResizing
    THEN [W EXCEPT !.pm[m] = [@ EXCEPT !.isResizing = FALSE,
                                       !.activeCornerIndex = Null,
                                       !.fixedCornerWorld = Null,
                                       !.initialMarkerCenter = Null,
                                       !.isDisabled = FALSE]]
    ELSE W

\* Corner observer, POINTERUP
cornerPointerUp(W, ls, m) ==
    IF W.pm[m].isResizing
    THEN forEachCallback(
             [W EXCEPT !.pm[m] = [@ EXCEPT !.isResizing = FALSE,
                                           !.activeCornerIndex = Null,
                                           !.fixedCornerWorld = Null,
                                           !.initialMarkerCenter = Null,
                                           !.isDisabled = FALSE]],
             ls, m, "resizeEnd", W.pm[m].resizeEndCallbacks)
    ELSE W

\* Corner observer, POINTERMOVE with the pointer over the ground point hitPoint
cornerPointerMove(W, m, hitPoint) ==
    LET mk == W.pm[m]
    IN  IF ~mk.isResizing \/ mk.activeCornerIndex = Null
           \/ mk.fixedCornerWorld = Null \/ mk.initialMarkerCenter = Null
           \/ hitPoint = NoHit
        THEN W
        ELSE LET fixedCornerWorld == mk.fixedCornerWorld[1]
                 deltaWorld == subtract(hitPoint, fixedCornerWorld)
                 axisX == getDirectionRight(mk)
                 axisZ == axisZOf(axisX)
                 projX == Dot(deltaWorld, axisX)
                 projZ == Dot(deltaWorld, axisZ)
                 signX == signOf(projX)
                 signZ == signOf(projZ)
                 fullWidthWorld == fullWorldOf(projX)
                 fullHeightWorld == fullWorldOf(projZ)
                 halfWidthWorld == fullWidthWorld \div 2
                 halfHeightWorld == fullHeightWorld \div 2
                 centerWorld == add(add(fixedCornerWorld, scale(axisX, signX * halfWidthWorld)),
                                    scale(axisZ, signZ * halfHeightWorld))
             IN  [W EXCEPT !.pm[m] =
                     [mk EXCEPT !.scaling = [x |-> fullWidthWorld \div BASE_WIDTH,
                                             y |-> fullHeightWorld \div BASE_HEIGHT],
                                !.position = V3(centerWorld.x, mk.initialMarkerCenter[1].y,
                                                centerWorld.z)]]

\* Edge observer, POINTERDOWN
edgePointerDown(W, ls, m, pick) ==
    IF pick = Null \/ pick[1].kind # "edge" \/ pick[1].m # m
    THEN W
    ELSE LET idx == pick[1].i
             W1 == selectMarkerFn(W, ls, m)
         IN  IF W1.sel # m
             THEN W1
             ELSE LET mk == W1.pm[m]
                      axisX == getDirectionRight(mk)
                      axisZ == axisZOf(axisX)
                      center == mk.position
                      handlePos == getAbsolutePosition(mk, edgePositions[idx])
                      v == subtract(handlePos, center)
                      dotX == Dot(v, axisX)
                      dotZ == Dot(v, axisZ)
                      width == Abs(dotX) >= Abs(dotZ)
                      axis == IF width THEN axisX ELSE axisZ
                      d == IF width THEN dotX ELSE dotZ
                      signSide == signOf(d)
                      half == Abs(d)
                  IN  [W1 EXCEPT !.pm[m] =
                          [mk EXCEPT !.isResizingEdge = TRUE,
                                     !.activeEdge = Some(idx),
                                     !.isDisabled = TRUE,
                                     !.isWidthResize = width,
                                     !.resizeAxis = Some(axis),
                                     !.fixedEdgeCenter =
                                         Some(subtract(center, scale(axis, signSide * half))),
                                     !.initialScaleX = mk.scaling.x,
                                     !.initialScaleY = mk.scaling.y,
                                     !.initialCenterY = mk.position.y]]

\* Edge observer, POINTERUP
edgePointerUp(W, ls, m) ==
    IF W.pm[m].isResizingEdge
    THEN forEachCallback(
             [W EXCEPT !.pm[m] = [@ EXCEPT !.isResizingEdge = FALSE,
                                           !.activeEdge = Null,
                                           !.resizeAxis = Null,
                                           !.fixedEdgeCenter = Null,
                                           !.isDisabled = FALSE]],
             ls, m, "resizeEnd", W.pm[m].resizeEndCallbacks)
    ELSE W

\* (mutant) the axis that is not resized is reset to scale 1
keptScaleReset(mk) == Fix

\* The scale the edge move writes to the axis it does not resize: the value
\* captured at pointer-down.
keptScale(mk) == IF mk.isWidthResize THEN mk.initialScaleY ELSE mk.initialScaleX

\* Edge observer, POINTERMOVE with the pointer over the ground point hitPoint
edgePointerMove(W, m, hitPoint) ==
    LET mk == W.pm[m]
    IN  IF ~mk.isResizingEdge \/ mk.activeEdge = Null
           \/ mk.resizeAxis = Null \/ mk.fixedEdgeCenter = Null
           \/ hitPoint = NoHit
        THEN W
        ELSE LET resizeAxis == mk.resizeAxis[1]
                 fixedEdgeCenter == mk.fixedEdgeCenter[1]
                 diff == subtract(hitPoint, fixedEdgeCenter)
                 t == Dot(diff, resizeAxis)
                 sign == signOf(t)
                 newHalf == newHalfOf(Abs(t))
                 fullWorld == newHalf * 2
                 centerWorld == add(fixedEdgeCenter, scale(resizeAxis, sign * newHalf))
             IN  [W EXCEPT !.pm[m] =
                     [mk EXCEPT !.scaling =
                                    IF mk.isWidthResize
                                    THEN [x |-> fullWorld \div BASE_WIDTH, y |-> keptScale(mk)]
                                    ELSE [x |-> keptScale(mk), y |-> fullWorld \div BASE_HEIGHT],
                                !.position = V3(centerWorld.x, mk.initialCenterY, centerWorld.z)]]

---------------------------------------------------------------------------
(* The plan view driven by the pointer, the render loop and the roof list  *)

\* Ground points of the pointer, all multiples of 0.25.
PlacePts == {V3(0, 0, 0), V3(12000, 0, 0)}
MovePts == {V3(-6000, 0, -6000), V3(2000, 0, 3000)}
ResizeCoords == {-6000, -5000, -4750, 1000}
ResizePts == {V3(x, 0, z) : x \in ResizeCoords, z \in ResizeCoords}
StartPts == {V3(0, 0, 0)}
StartScales == {[x |-> Fix, y |-> Fix], [x |-> 500, y |-> 2000]}

\* The ground point under a pointer that is on a handle: a grid point
\* within the handle's square.
Snap(a) == a - (a % 250)
PointOn(mk, p) ==
    LET c == getAbsolutePosition(mk, p) IN V3(Snap(c.x), 0, Snap(c.z))

\* The pointer at the ground point p is over the marker or one of its handles.
Over(mk, p) ==
    LET d == subtract(p, mk.position)
    IN  /\ Abs(Dot(d, LocalX(mk.rotationY))) <= FMul(mk.scaling.x, halfW) + HandleReach
        /\ Abs(Dot(d, LocalY(mk.rotationY))) <= FMul(mk.scaling.y, halfH) + HandleReach

Here ==
    [World(planMarkers, selectedMarkerId, markers, heap, seen) EXCEPT
        !.cam = cameraAttached, !.hs = houses, !.hb = housesBefore]

\* The effect of a handler that ended in the state W; id is the marker the
\* event was about, if any.
FinishFor(W, op, id) ==
    LET n == Normalize(W.ms, W.h)
    IN  /\ markers' = n.markers
        /\ heap' = n.heap
        /\ seen' = W.sn
        /\ delivered' = W.calls
        /\ planMarkers' = W.pm
        /\ selectedMarkerId' = W.sel
        /\ cameraAttached' = W.cam
        /\ houses' = W.hs
        /\ housesBefore' = W.hb
        /\ lastOp' = [op |-> op, id |-> id, l |-> 0, t |-> NoTransform, cbs |-> W.inv]
        /\ pre' = <<>>
        /\ orig' = <<>>
        /\ UNCHANGED <<listeners, subState>>

Finish(W, op) == FinishFor(W, op, NullId)

\* scene.onPointerObservable, POINTERDOWN: the observers of the markers in
\* the order the markers were created (movement, its drag behaviour,
\* rotation, corner, edge) ...
markerPointerDown(W, ls, m, pick, hitPoint) ==
    Then(dragPointerDown(movementPointerDown(W, m, pick), m, pick, hitPoint), LAMBDA W1 :
    Then(rotationPointerDown(W1, m, pick, hitPoint), LAMBDA W2 :
    IF ~W2.pm[m].resizeAttached THEN W2 ELSE
    Then(cornerPointerDown(W2, ls, m, pick), LAMBDA W3 :
    edgePointerDown(W3, ls, m, pick))))

RECURSIVE markersPointerDown(_, _, _, _, _)
markersPointerDown(m, W, ls, pick, hitPoint) ==
    IF m > MaxMarkers
    THEN W
    ELSE Then(IF m \in DOMAIN W.pm THEN markerPointerDown(W, ls, m, pick, hitPoint) ELSE W,
              LAMBDA W1 : markersPointerDown(m + 1, W1, ls, pick, hitPoint))

\* ... then the observer of PlanCanvas, registered after them: the add-roof
\* observer of the pending command, or the selection observer that exists
\* while no command was ever given.  A marker's plane has a metadata.id and
\* is selected by both; no handle has a metadata.id, so a picked handle is
\* for both the same as nothing picked.  The new marker's observers join the
\* list during the event and see it too.
hasMarkerId(pick) == pick # Null /\ pick[1].kind = "body"

planPointerDown(W, ls, pick, hitPoint) ==
    IF addObserver
    THEN IF hasMarkerId(pick)
         THEN PlanCanvas_selectMarker(W, ls, pick[1].m)
         ELSE IF hitPoint = NoHit
         THEN W
         ELSE movementPointerDown(
                  placeMarker(W, ls, created + 1, addCommand[1], hitPoint),
                  created + 1, pick)
    ELSE IF addCommand = Null
    THEN IF hasMarkerId(pick)
         THEN PlanCanvas_selectMarker(W, ls, pick[1].m)
         ELSE PlanCanvas_selectMarker(W, ls, NullId)
    ELSE W

\* The gesture a pointer-down started, for the properties below.
gestureOf(W, pick, hitPoint) ==
    IF pick # Null /\ pick[1].m \in DOMAIN W.pm
       /\ (W.pm[pick[1].m].isResizing \/ W.pm[pick[1].m].isResizingEdge)
    THEN LET mk == W.pm[pick[1].m]
         IN  [kind |-> pick[1].kind, m |-> pick[1].m, idx |-> pick[1].i,
              anchor |-> getAbsolutePosition(mk, cornerPositions[oppositeCornerMap[pick[1].i]]),
              sx0 |-> mk.scaling.x, sy0 |-> mk.scaling.y, r0 |-> mk.rotationY,
              moved |-> FALSE, last |-> V3(0, 0, 0), ticks |-> 0, p0 |-> mk.position]
    ELSE IF pick # Null /\ pick[1].m \in DOMAIN W.pm /\ W.pm[pick[1].m].dragging
    THEN LET mk == W.pm[pick[1].m]
         IN  [kind |-> "rotation", m |-> pick[1].m, idx |-> 0, anchor |-> hitPoint,
              sx0 |-> mk.scaling.x, sy0 |-> mk.scaling.y, r0 |-> mk.rotationY,
              moved |-> FALSE, last |-> hitPoint, ticks |-> 0, p0 |-> mk.position]
    ELSE IF pick # Null /\ pick[1].m \in DOMAIN W.pm /\ W.pm[pick[1].m].isDragging
    THEN LET mk == W.pm[pick[1].m]
         IN  [kind |-> "body", m |-> pick[1].m, idx |-> 0, anchor |-> mk.position,
              sx0 |-> mk.scaling.x, sy0 |-> mk.scaling.y, r0 |-> mk.rotationY,
              moved |-> FALSE, last |-> hitPoint, ticks |-> 0, p0 |-> mk.position]
    ELSE NoGesture

\* The pointer-down places a marker: the add-roof observer is registered and
\* the picked mesh is not a marker's plane.
places(pick) == addObserver /\ ~hasMarkerId(pick)

PointerDown(pick, hitPoint) ==
    /\ ~pointerIsDown
    /\ (places(pick) /\ hitPoint # NoHit) => created < MaxMarkers
    /\ \E W1 \in {markersPointerDown(1, Here, listeners, pick, hitPoint)} :
       \E W \in {planPointerDown(W1, listeners, pick, hitPoint)} :
           /\ FinishFor(W, IF hitPoint = NoHit THEN "pointerdownOff" ELSE "pointerdown",
                         IF pick = Null THEN NullId ELSE pick[1].m)
           /\ gesture' = gestureOf(W1, pick, hitPoint)
           /\ gestures' = IF pick # Null THEN gestures + 1 ELSE gestures
    /\ created' = IF places(pick) /\ hitPoint # NoHit THEN created + 1 ELSE created
    /\ addObserver' = (addObserver /\ ~(places(pick) /\ hitPoint # NoHit))
    /\ pointerIsDown' = TRUE
    /\ UNCHANGED addCommand

\* Pointer-down on empty ground.
PointerDownGround(p) ==
    /\ \A m \in DOMAIN planMarkers : ~Over(planMarkers[m], p)
    /\ PointerDown(Null, p)

\* Pointer-down on a handle: only the selected marker's handles are enabled.
PointerDownCorner(m, i) ==
    /\ gestures < MaxGestures
    /\ m \in DOMAIN planMarkers /\ planMarkers[m].handlesOn
    /\ PointerDown(Some(CornerHandle(m, i)), PointOn(planMarkers[m], cornerPositions[i]))

PointerDownEdge(m, i) ==
    /\ gestures < MaxGestures
    /\ m \in DOMAIN planMarkers /\ planMarkers[m].handlesOn
    /\ PointerDown(Some(EdgeHandle(m, i)), PointOn(planMarkers[m], edgePositions[i]))

\* Pointer-down on the rotation handle, at its centre.
PointerDownRotation(m) ==
    /\ gestures < MaxGestures
    /\ m \in DOMAIN planMarkers /\ planMarkers[m].handlesOn
    /\ \E c \in {getAbsolutePosition(planMarkers[m], rotationHandlePosition)} :
           PointerDown(Some(RotationHandle(m)), V3(c.x, 0, c.z))

\* Pointer-down on a marker's plane, at its centre.
PointerDownBody(m) ==
    /\ gestures < MaxGestures
    /\ m \in DOMAIN planMarkers
    /\ PointerDown(Some(Body(m)), V3(planMarkers[m].position.x, 0, planMarkers[m].position.z))

\* POINTERMOVE: each marker's drag behaviour, its rotation observer, its
\* corner observer, then its edge observer.
markerPointerMove(W, m, hitPoint) ==
    Then(rotationPointerMove(dragPointerMove(W, m, hitPoint), m, hitPoint), LAMBDA W1 :
    IF ~W1.pm[m].resizeAttached THEN W1 ELSE
    Then(cornerPointerMove(W1, m, hitPoint), LAMBDA W2 :
    edgePointerMove(W2, m, hitPoint)))

RECURSIVE markersPointerMove(_, _, _)
markersPointerMove(m, W, hitPoint) ==
    IF m > MaxMarkers
    THEN W
    ELSE Then(IF m \in DOMAIN W.pm THEN markerPointerMove(W, m, hitPoint) ELSE W,
              LAMBDA W1 : markersPointerMove(m + 1, W1, hitPoint))

\* The ground point p lies a whole number of quarter turns about the centre
\* of every marker that is being rotated.
onAxis(mk, p) == p.x = mk.position.x \/ p.z = mk.position.z
quarterTurnsOnly(p) ==
    \A m \in DOMAIN planMarkers : planMarkers[m].dragging => onAxis(planMarkers[m], p)

PointerMove(hitPoint) ==
    /\ quarterTurnsOnly(hitPoint)
    /\ \E W \in {markersPointerMove(1, Here, hitPoint)} : Finish(W, "pointermove")
    /\ gesture' = IF gesture.kind # "none" /\ gesture.m \in DOMAIN planMarkers
                  THEN [gesture EXCEPT !.moved = TRUE, !.last = hitPoint]
                  ELSE gesture
    /\ UNCHANGED <<addCommand, addObserver, created, pointerIsDown, gestures>>

\* The ground point k quarter turns from the x axis about the marker's
\* centre, as far out as the rotation handle of an unscaled marker.
axisPoint(mk, k) ==
    V3(mk.position.x + cos4(k) * rotationHandlePosition.y, 0,
       mk.position.z + sin4(k) * rotationHandlePosition.y)

\* A pointer-move of the rotation gesture on marker m.
PointerMoveAround(m, k) ==
    /\ m \in DOMAIN planMarkers /\ planMarkers[m].dragging
    /\ PointerMove(axisPoint(planMarkers[m], k))

\* POINTERUP: each marker's movement observer, its drag behaviour, its
\* rotation, corner and edge observer.
markerPointerUp(W, ls, m) ==
    Then(dragPointerUp(movementPointerUp(W, m), ls, m), LAMBDA W1 :
    Then(rotationPointerUp(W1, ls, m), LAMBDA W2 :
    IF ~W2.pm[m].resizeAttached THEN W2 ELSE
    Then(cornerPointerUp(W2, ls, m), LAMBDA W3 :
    edgePointerUp(W3, ls, m))))

RECURSIVE markersPointerUp(_, _, _)
markersPointerUp(m, W, ls) ==
    IF m > MaxMarkers
    THEN W
    ELSE Then(IF m \in DOMAIN W.pm THEN markerPointerUp(W, ls, m) ELSE W,
              LAMBDA W1 : markersPointerUp(m + 1, W1, ls))

\* The name of the event that ended the gesture under way.
endOf(g) == IF g.kind = "none" THEN "pointerup" ELSE g.kind \o "End"

PointerUp ==
    /\ pointerIsDown
    /\ \E W \in {markersPointerUp(1, Here, listeners)} :
           FinishFor(W, endOf(gesture), gesture.m)
    /\ gesture' = NoGesture
    /\ pointerIsDown' = FALSE
    /\ UNCHANGED <<addCommand, addObserver, created, gestures>>

\* POINTERDOUBLETAP, dispatched before the POINTERUP of a second quick
\* click: each marker's movement and rotation observer.
RECURSIVE markersDoubleTap(_, _, _)
markersDoubleTap(m, W, ls) ==
    IF m > MaxMarkers
    THEN W
    ELSE Then(IF m \in DOMAIN W.pm
              THEN rotationPointerUp(movementPointerUp(W, m), ls, m)
              ELSE W,
              LAMBDA W1 : markersDoubleTap(m + 1, W1, ls))

DoubleTap ==
    /\ pointerIsDown
    /\ \E W \in {markersDoubleTap(1, Here, listeners)} :
           FinishFor(W, "doubletap", IF gesture.kind = "rotation" THEN gesture.m ELSE NullId)
    /\ gesture' = IF gesture.kind = "rotation" THEN NoGesture ELSE gesture
    /\ UNCHANGED <<addCommand, addObserver, created, pointerIsDown, gestures>>

\* scene.onBeforeRenderObservable: for each marker the observer of its drag
\* behaviour, then its syncObserver, which publishes the marker while it is
\* being resized.
markerBeforeRender(W, ls, m) ==
    Then(dragBeforeRender(W, m), LAMBDA W1 :
    IF getIsResizing(W1.pm[m]) THEN updateMarkerState(W1, ls, m) ELSE W1)

RECURSIVE markersBeforeRender(_, _, _)
markersBeforeRender(m, W, ls) ==
    IF m > MaxMarkers
    THEN W
    ELSE Then(IF m \in DOMAIN W.pm THEN markerBeforeRender(W, ls, m) ELSE W,
              LAMBDA W1 : markersBeforeRender(m + 1, W1, ls))

\* A tick; the ticks at which a drag moves a marker are counted per gesture
\* and bounded.  No frame is rendered between the POINTERDOUBLETAP and the
\* POINTERUP of one input event.
BeforeRender ==
    /\ lastOp.op # "doubletap"
    /\ \E W \in {markersBeforeRender(1, Here, listeners)} :
           /\ W.pm # planMarkers => gesture.ticks < MaxTicks
           /\ Finish(W, "render")
           /\ gesture' = IF W.pm # planMarkers
                         THEN [gesture EXCEPT !.ticks = @ + 1]
                         ELSE gesture
    /\ UNCHANGED <<addCommand, addObserver, created, pointerIsDown, gestures>>

\* The ticks during a resize gesture: at the others no syncObserver writes.
BeforeRenderResizing ==
    /\ \E m \in DOMAIN planMarkers : planMarkers[m].isResizing \/ planMarkers[m].isResizingEdge
    /\ BeforeRender

\* The page's "add roof" buttons: a new addCommand; the effects of the old
\* value are cleaned up and the add-roof observer is registered again.
IssueAddRoof(roofType) ==
    /\ ~pointerIsDown
    /\ addCommand' = Some(roofType)
    /\ addObserver' = TRUE
    /\ lastOp' = [op |-> "addRoof", id |-> NullId, l |-> 0, t |-> NoTransform]
    /\ delivered' = NoCalls
    /\ pre' = <<>>
    /\ orig' = <<>>
    /\ UNCHANGED <<markers, heap, listeners, seen, subState, planMarkers,
                   selectedMarkerId, created, pointerIsDown, gesture, gestures,
                   cameraAttached, houses, housesBefore>>

\* The store's removeMarker and clearMarkers called from outside the plan view.
PlanRemoveMarker(id) ==
    /\ \E i \in DOMAIN markers : markers[i].id = id
    /\ \E W \in {storeRemoveMarker(Here, listeners, id)} : FinishFor(W, "removeMarker", id)
    /\ UNCHANGED <<addCommand, addObserver, created, pointerIsDown, gesture, gestures>>

PlanClearMarkers ==
    /\ markers # <<>>
    /\ \E W \in {storeClearMarkers(Here, listeners)} : Finish(W, "clearMarkers")
    /\ UNCHANGED <<addCommand, addObserver, created, pointerIsDown, gesture, gestures>>

\* The store's setMarkerTransform called from outside the plan view.
StoreSetMarkerTransform(t) ==
    /\ \E W \in {storeSetMarkerTransform(Here, listeners, t)} :
           FinishFor(W, "setMarkerTransform", t.id)
    /\ UNCHANGED <<addCommand, addObserver, created, pointerIsDown, gesture, gestures>>

\* Both views mounted: each has subscribed and been handed the empty list.
Init ==
    /\ PlanIdle
    /\ markers = <<>>
    /\ heap = <<>>
    /\ listeners = <<PlanListener, ModelListener>>
    /\ seen = [l \in ListenerIds |-> <<>>]
    /\ delivered = NoCalls
    /\ lastOp = [op |-> "mount", id |-> NullId, l |-> 0, t |-> NoTransform]
    /\ pre = <<>>
    /\ orig = <<>>
    /\ subState = [l \in ListenerIds |-> "on"]

Next ==
    \/ \E r \in RoofTypes : IssueAddRoof(r)
    \/ \E p \in PlacePts : PointerDownGround(p)
    \/ \E m \in MarkerIds, i \in 0..3 : PointerDownCorner(m, i)
    \/ \E m \in MarkerIds, i \in 0..3 : PointerDownEdge(m, i)
    \/ \E m \in MarkerIds : PointerDownRotation(m)
    \/ \E m \in MarkerIds : PointerDownBody(m)
    \/ \E p \in MovePts : PointerMove(p)
    \/ \E m \in MarkerIds, k \in 0..3 : PointerMoveAround(m, k)
    \/ PointerUp
    \/ DoubleTap
    \/ BeforeRenderResizing
    \/ \E id \in MarkerIds : PlanRemoveMarker(id)
    \/ PlanClearMarkers

Spec == Init /\ [][Next]_vars

\* The model view on its own: both views mounted, the plan view idle, and a
\* client of the store that writes transforms of marker 1 whose position
\* moves by steps of the epsilon, with either roof type, resizing or not,
\* writes one transform of marker 2, and removes markers.
HouseXs == {0, EPS, 2 * EPS}
HouseTransforms ==
    { [id |-> 1, roofType |-> r, position |-> V3(x, MARKER_Y, 0), rotationY |-> 0,
       scaleX |-> Fix, scaleY |-> Fix, widthMeters |-> BASE_WIDTH * Fix,
       heightMeters |-> BASE_HEIGHT * Fix, isResizing |-> rs, isSelected |-> FALSE] :
      r \in RoofTypes, x \in HouseXs, rs \in BOOLEAN }
    \cup
    { [id |-> 2, roofType |-> "flat", position |-> V3(0, MARKER_Y, 0), rotationY |-> 0,
       scaleX |-> Fix, scaleY |-> Fix, widthMeters |-> BASE_WIDTH * Fix,
       heightMeters |-> BASE_HEIGHT * Fix, isResizing |-> FALSE, isSelected |-> FALSE] }
NextHouse ==
    \/ \E t \in HouseTransforms : StoreSetMarkerTransform(t)
    \/ \E id \in MarkerIds : PlanRemoveMarker(id)
    \/ PlanClearMarkers

SpecHouse == Init /\ [][NextHouse]_vars

\* One roof placed at a start point, turned by a number of quarter turns with
\* its rotation handle, sized with its corner handles, selected, and no
\* command pending: the plan view as a resize gesture finds it.  The pointer
\* events of the gesture follow; publishing from the render loop is in Spec.
MarkerOne == 1
InitOne(fn, sel) ==
    \E p \in StartPts, q \in 0..3, sc \in StartScales :
        LET mk == [CreateRoofMarker(V3(p.x, MARKER_Y, p.z), "flat") EXCEPT
                       !.rotationY = q, !.scaling = sc, !.handlesOn = TRUE,
                       !.selectMarkerFn = fn]
            W == updateMarkerState(
                     World((MarkerOne :> mk), sel, <<>>, <<>>,
                           [l \in ListenerIds |-> <<>>]),
                     <<PlanListener, ModelListener>>, MarkerOne)
            n == Normalize(W.ms, W.h)
        IN  /\ planMarkers = W.pm
            /\ selectedMarkerId = sel
            /\ markers = n.markers
            /\ heap = n.heap
            /\ seen = W.sn
            /\ delivered = W.calls
            /\ listeners = <<PlanListener, ModelListener>>
            /\ subState = [l \in ListenerIds |-> "on"]
            /\ lastOp = [op |-> "mount", id |-> NullId, l |-> 0, t |-> NoTransform]
            /\ pre = <<>>
            /\ orig = <<>>
            /\ addCommand = Some("flat")
            /\ addObserver = FALSE
            /\ created = 1
            /\ pointerIsDown = FALSE
            /\ gesture = NoGesture
            /\ gestures = 0
            /\ cameraAttached = TRUE
            /\ houses = W.hs
            /\ housesBefore = W.hb

InitResize == InitOne("selectMarker", MarkerOne)

NextResize ==
    \/ \E i \in 0..3 : PointerDownCorner(MarkerOne, i)
    \/ \E i \in 0..3 : PointerDownEdge(MarkerOne, i)
    \/ \E p \in ResizePts : PointerMove(p)
    \/ PointerUp

SpecResize == InitResize /\ [][NextResize]_vars

\* ResizeBehaviour.detach() called on the roof's resize controller.
DetachResize(m) ==
    /\ m \in DOMAIN planMarkers /\ planMarkers[m].resizeAttached
    /\ \E W \in {resizeDetach(Here, m)} : FinishFor(W, "resizeDetach", m)
    /\ gesture' = NoGesture
    /\ UNCHANGED <<addCommand, addObserver, created, pointerIsDown, gestures>>

NextDetach ==
    \/ NextResize
    \/ DetachResize(MarkerOne)

SpecDetach == InitResize /\ [][NextDetach]_vars

\* The same roof, the pointer events of a resize gesture with fewer pointer
\* positions, and the render loop.
NextTick ==
    \/ \E i \in 0..3 : PointerDownCorner(MarkerOne, i)
    \/ \E i \in 0..3 : PointerDownEdge(MarkerOne, i)
    \/ \E p \in MovePts : PointerMove(p)
    \/ PointerUp
    \/ BeforeRender

SpecTick == InitResize /\ [][NextTick]_vars

\* The same roof resized by a corner handle, with the render loop: the
\* pointer goes next to the anchor, beyond it, or elsewhere.
CornerPts == {V3(-4750, 0, 1000), V3(-6000, 0, -6000), V3(2000, 0, 3000)}
NextCorner ==
    \/ \E i \in 0..3 : PointerDownCorner(MarkerOne, i)
    \/ \E p \in CornerPts : PointerMove(p)
    \/ PointerUp
    \/ BeforeRenderResizing

SpecCorner == InitResize /\ [][NextCorner]_vars

\* A caller hands one of the roof's controllers a further callback for one
\* of its events, before the pointer is used.
Callbacks == {"a", "b"}
Events == {"moveStart", "moveEnd", "rotationStart", "rotationEnd", "resizeEnd"}
further(mk) ==
    Len(mk.registered.moveStart) + Len(mk.registered.moveEnd)
        + Len(mk.registered.rotationStart) + Len(mk.registered.rotationEnd)
        + Len(mk.registered.resizeEnd) - 3
Register(m, c, cb) ==
    /\ m \in DOMAIN planMarkers /\ ~pointerIsDown /\ gestures = 0
    /\ further(planMarkers[m]) < MaxCallbacks
    /\ \A i \in DOMAIN planMarkers[m].registered[c] : planMarkers[m].registered[c][i] # cb
    /\ \E W \in {[Here EXCEPT !.pm[m] = register(@, c, cb)]} : FinishFor(W, "register", m)
    /\ UNCHANGED <<addCommand, addObserver, created, pointerIsDown, gesture, gestures>>

NextCallbacks ==
    \/ \E c \in Events, cb \in Callbacks : Register(MarkerOne, c, cb)
    \/ PointerDownBody(MarkerOne)
    \/ \E i \in 0..3 : PointerDownCorner(MarkerOne, i)
    \/ \E i \in 0..3 : PointerDownEdge(MarkerOne, i)
    \/ PointerDownRotation(MarkerOne)
    \/ PointerUp
    \/ DoubleTap

SpecCallbacks == InitResize /\ [][NextCallbacks]_vars

\* Pointer events whose ray does not meet the ground plane: a pointer-down
\* on nothing, a pointer-down on the rotation handle, and a pointer-move.
PointerDownOff == PointerDown(Null, NoHit)

PointerDownRotationOff(m) ==
    /\ gestures < MaxGestures
    /\ m \in DOMAIN planMarkers /\ planMarkers[m].handlesOn
    /\ PointerDown(Some(RotationHandle(m)), NoHit)

PointerMoveOff ==
    /\ \E W \in {markersPointerMove(1, Here, NoHit)} : Finish(W, "pointermoveOff")
    /\ UNCHANGED <<addCommand, addObserver, created, pointerIsDown, gesture, gestures>>

\* The roof of InitResize with the add-roof command issued again, the
\* pointer events of its gestures and the same events off the ground plane.
NextOff ==
    \/ \E roofType \in RoofTypes : IssueAddRoof(roofType)
    \/ \E p \in PlacePts : PointerDownGround(p)
    \/ PointerDownOff
    \/ \E i \in 0..3 : PointerDownCorner(MarkerOne, i)
    \/ \E i \in 0..3 : PointerDownEdge(MarkerOne, i)
    \/ PointerDownRotation(MarkerOne)
    \/ PointerDownRotationOff(MarkerOne)
    \/ \E p \in MovePts : PointerMove(p)
    \/ PointerMoveOff
    \/ PointerUp

SpecOff == InitResize /\ [][NextOff]_vars

\* A resize controller on its own: the roof with its handles shown but not
\* selected, and as the controller's select function either the plan view's
\* selectMarker or a function that leaves the selection as it is.
SelectFns == {"selectMarker", "none"}
InitRefuse == \E fn \in SelectFns : InitOne(fn, NullId)

SpecRefuse == InitRefuse /\ [][NextTick]_vars

\* The same roof dragged by its plane or taken by one of its handles, with
\* the render loop: the pointer stays on the plane, leaves it, or goes round
\* the centre.
DragPts == {V3(2000, 0, 1000), V3(8000, 0, 0), V3(0, 0, -7000)}

NextDrag ==
    \/ PointerDownBody(MarkerOne)
    \/ \E i \in 0..3 : PointerDownCorner(MarkerOne, i)
    \/ \E i \in 0..3 : PointerDownEdge(MarkerOne, i)
    \/ PointerDownRotation(MarkerOne)
    \/ \E p \in DragPts : PointerMove(p)
    \/ PointerUp
    \/ DoubleTap
    \/ BeforeRender

SpecDrag == InitResize /\ [][NextDrag]_vars

\* The same roof and the pointer events of a rotation gesture.
NextRotate ==
    \/ PointerDownRotation(MarkerOne)
    \/ \E k \in 0..3 : PointerMoveAround(MarkerOne, k)
    \/ PointerUp
    \/ DoubleTap

SpecRotate == InitResize /\ [][NextRotate]_vars

---------------------------------------------------------------------------
(* Claims about the store                                                  *)

MutationOps ==
    {"setMarkerTransform", "updateMarker", "removeMarker", "clearMarkers", "selectMarker"}

Subscribed == {l \in ListenerIds : subState[l] = "on"}

SelectedIn(ms) == {i \in DOMAIN ms : ms[i].isSelected}

\* C2: after selectMarker(id) at most one entry is selected and it is the
\* entry whose id is the argument of that call; after selectMarker(null), or
\* an id that is not in the store, no entry is selected.
C2_SelectIsMostRecent ==
    lastOp.op = "selectMarker" =>
        /\ Cardinality(SelectedIn(markers)) <= 1
        /\ \A i \in DOMAIN markers : markers[i].isSelected <=> (markers[i].id = lastOp.id)
        /\ (lastOp.id = NullId \/ findIndex(markers, lastOp.id) = -1)
              => SelectedIn(markers) = {}

\* A select that moved the selection: the second of two entries is selected
\* and the first, which was written as selected (x = 1), is not any more.
C2_Witness ==
    /\ lastOp.op = "selectMarker"
    /\ Len(markers) = 2
    /\ markers[2].isSelected /\ ~markers[1].isSelected
    /\ heap[markers[1].position].x = 1

\* C3 (as stated): a listener's writes to the snapshot it was handed,
\* the nested position included, leave the store as its operations made it;
\* a later subscribeMarkers call delivers those values.
C3_SnapshotWritesNotInStore ==
    lastOp.op = "subscribeMarkers" => seen[lastOp.l] = orig

\* The marker list without the nested position objects: the array and the
\* marker objects' own fields.
Shallow(list) ==
    [i \in DOMAIN list |-> [f \in (DOMAIN list[i]) \ {"position"} |-> list[i][f]]]

\* C4 (as stated): within one broadcast no listener reads, in the array and
\* marker objects it is handed, what another listener wrote to its own.
C4_ListenersIsolated ==
    lastOp.op \in MutationOps =>
        \A l1, l2 \in Subscribed : Shallow(seen[l1]) = Shallow(seen[l2])

\* C5: subscribeMarkers(listener) calls the listener exactly once, with the
\* current full list; every later mutation calls every subscribed listener;
\* a listener whose unsubscribe function has been called is not called.
C5_SubscribeContract ==
    /\ lastOp.op = "subscribeMarkers" =>
          /\ delivered[lastOp.l] = 1
          /\ seen[lastOp.l] = DeepValue(markers, heap)
          /\ \A l \in ListenerIds \ {lastOp.l} : delivered[l] = 0
    /\ lastOp.op \in MutationOps =>
          \A l \in Subscribed : delivered[l] >= 1
    /\ \A l \in ListenerIds : subState[l] = "off" => delivered[l] = 0

\* A mutation made after one listener unsubscribed while the other stays.
C5_Witness ==
    /\ lastOp.op \in MutationOps
    /\ subState[PlanListener] = "off" /\ delivered[PlanListener] = 0
    /\ subState[ModelListener] = "on" /\ delivered[ModelListener] = 1
    /\ markers # <<>>

\* C6: setMarkerTransform(t) replaces the entry with t.id by t as a whole, in
\* place, leaving the other entries alone; without such an entry it appends t.
C6_FullReplacement ==
    lastOp.op = "setMarkerTransform" =>
        LET post == DeepValue(markers, heap)
            t == lastOp.t
            idx == findIndex(pre, t.id)
        IN  IF idx # -1
            THEN /\ Len(post) = Len(pre)
                 /\ post[idx] = t
                 /\ \A j \in DOMAIN pre : j # idx => post[j] = pre[j]
            ELSE post = Append(pre, t)

\* A replacement of the first of two entries by a different value.
C6_Witness ==
    /\ lastOp.op = "setMarkerTransform"
    /\ Len(pre) = 2
    /\ pre[1].id = lastOp.t.id
    /\ pre[1] # lastOp.t

\* C7: every mutation calls every subscribed listener exactly once, with the
\* complete marker list as the mutation left it.
C7_OneFullSnapshotEach ==
    lastOp.op \in MutationOps =>
        \A l \in ListenerIds :
            IF l \in Subscribed
            THEN delivered[l] = 1 /\ seen[l] = DeepValue(markers, heap)
            ELSE delivered[l] = 0

\* A removal from a list of two with both listeners subscribed.
C7_Witness ==
    /\ lastOp.op = "removeMarker"
    /\ Subscribed = ListenerIds
    /\ Len(markers) = 1 /\ Len(seen[PlanListener]) = 1

---------------------------------------------------------------------------
(* Claims about the plan view and its resize gestures                      *)

\* C1 (as stated): whatever the plan view and the store's callers do, at most
\* one entry of the store has isSelected = true.
C1_AtMostOneSelected == Cardinality(SelectedIn(markers)) <= 1

\* The marker of the gesture under way, once a pointer-move has been handled.
CornerMoved ==
    /\ gesture.kind = "corner" /\ gesture.moved
    /\ gesture.m \in DOMAIN planMarkers
    /\ planMarkers[gesture.m].isResizing
EdgeMoved ==
    /\ gesture.kind = "edge" /\ gesture.moved
    /\ gesture.m \in DOMAIN planMarkers
    /\ planMarkers[gesture.m].isResizingEdge

\* |a - b| <= 1e-4
Within(a, b) == Abs(a - b) * 10000 <= Fix

\* C8 (as stated): during a corner resize on handle i, after every
\* pointer-move the handle of the opposite corner (index 3 - i) is where it
\* was at pointer-down, within 1e-4 on each axis.
C8_OppositeCornerPinned ==
    CornerMoved =>
        LET now == getAbsolutePosition(planMarkers[gesture.m],
                                       cornerPositions[3 - gesture.idx])
        IN  /\ Within(now.x, gesture.anchor.x)
            /\ Within(now.y, gesture.anchor.y)
            /\ Within(now.z, gesture.anchor.z)

\* C9: an edge resize on the right or left handle leaves scaling.y at its
\* pointer-down value, and one on the top or bottom handle leaves scaling.x
\* at its pointer-down value.
C9_EdgeKeepsOtherScale ==
    EdgeMoved =>
        IF gesture.idx \in {1, 3}
        THEN planMarkers[gesture.m].scaling.y = gesture.sy0
        ELSE planMarkers[gesture.m].scaling.x = gesture.sx0

\* A move on the right handle that changed scaling.x of a marker whose
\* scaling.y was 2 at pointer-down.
C9_Witness ==
    /\ EdgeMoved /\ gesture.idx = 1
    /\ gesture.sy0 = 2 * Fix
    /\ planMarkers[gesture.m].scaling.x # gesture.sx0

\* C10: scaling.x and scaling.y are always positive; after a corner move
\* both extents are at least 0.5, and after an edge move the half-extent
\* along the resized axis is at least 0.25.
C10_ScalePositiveAndFloored ==
    /\ \A m \in DOMAIN planMarkers :
          planMarkers[m].scaling.x > 0 /\ planMarkers[m].scaling.y > 0
    /\ CornerMoved =>
          /\ planMarkers[gesture.m].scaling.x * BASE_WIDTH >= MIN_SIZE
          /\ planMarkers[gesture.m].scaling.y * BASE_HEIGHT >= MIN_SIZE
    /\ EdgeMoved =>
          IF gesture.idx \in {1, 3}
          THEN planMarkers[gesture.m].scaling.x * BASE_WIDTH >= 2 * MIN_HALF
          ELSE planMarkers[gesture.m].scaling.y * BASE_HEIGHT >= 2 * MIN_HALF

\* A corner move with the pointer exactly at the anchor on the x axis and
\* past it on the z axis: the width is the floor, 0.5.
C10_Witness ==
    /\ CornerMoved
    /\ gesture.last.x = gesture.anchor.x
    /\ gesture.last.z < gesture.anchor.z
    /\ gesture.idx = 1
    /\ planMarkers[gesture.m].rotationY = 0
    /\ planMarkers[gesture.m].scaling.x * BASE_WIDTH = MIN_SIZE

---------------------------------------------------------------------------
(* Claims about rotation, the camera and the controllers' flags            *)

\* The marker of the rotation gesture under way, once a pointer-move has
\* been handled.
RotMoved ==
    /\ gesture.kind = "rotation" /\ gesture.moved
    /\ gesture.m \in DOMAIN planMarkers
    /\ planMarkers[gesture.m].dragging

\* A quarter turn clockwise for a viewer above the ground who looks down with
\* the x axis to the right and the z axis upwards, as the plan camera shows it.
clockwise(v) == V3(v.z, 0, 0 - v.x)

RECURSIVE turned(_, _)
turned(v, k) == IF k = 0 THEN v ELSE turned(clockwise(v), k - 1)

sameDirection(a, b) == a.x * b.z = a.z * b.x /\ Dot(a, b) > 0

\* The pointer's direction from the marker's centre at pointer-down and now.
sweepFrom == subtract(gesture.anchor, planMarkers[gesture.m].position)
sweepTo == subtract(gesture.last, planMarkers[gesture.m].position)

\* C11 (as stated): on every pointer-move of a rotation gesture rotationY is
\* the rotation at pointer-down minus (the pointer's angle now minus its
\* angle at pointer-down), and so a clockwise sweep of the handle by k quarter
\* turns decreases rotationY by k quarter turns.
C11_ClockwiseDecreases ==
    RotMoved =>
        /\ planMarkers[gesture.m].rotationY =
               gesture.r0 - (atan2(sweepTo.z, sweepTo.x) - atan2(sweepFrom.z, sweepFrom.x))
        /\ \A k \in 0..3 :
               sameDirection(turned(sweepFrom, k), sweepTo) =>
                   (planMarkers[gesture.m].rotationY - (gesture.r0 - k)) % 4 = 0

\* C11 (amended): rotationY is the rotation at pointer-down minus the change
\* of the pointer's atan2(z, x) angle about the marker's centre; that angle
\* grows counter-clockwise for a viewer above, so a clockwise sweep of the
\* handle by k quarter turns increases rotationY by k quarter turns, up to
\* whole turns.
C11_RotationFollowsPointer ==
    RotMoved =>
        /\ planMarkers[gesture.m].rotationY =
               gesture.r0 - (atan2(sweepTo.z, sweepTo.x) - atan2(sweepFrom.z, sweepFrom.x))
        /\ \A k \in 0..3 :
               sameDirection(turned(sweepFrom, k), sweepTo) =>
                   (planMarkers[gesture.m].rotationY - (gesture.r0 + k)) % 4 = 0

\* A rotation gesture on a marker turned by one quarter whose pointer has
\* swept one quarter turn clockwise.
C11_Witness ==
    /\ RotMoved
    /\ gesture.r0 = 1
    /\ sameDirection(clockwise(sweepFrom), sweepTo)
    /\ planMarkers[gesture.m].rotationY = 2

\* A rotation gesture is under way on some marker.
RotationActive == \E m \in DOMAIN planMarkers : planMarkers[m].dragging

\* The last event ended a rotation gesture.
RotationEnded == lastOp.op \in {"rotationEnd", "doubletap"} /\ lastOp.id # NullId

\* C12 (as stated): when a rotation gesture has ended, by pointer-up or by
\* double-tap, the camera controls detached at its pointer-down are attached
\* again; whenever no rotation gesture is active they are attached.
C12_CameraAttachedOutsideRotation ==
    /\ RotationEnded => cameraAttached
    /\ ~RotationActive => cameraAttached

---------------------------------------------------------------------------
(* Claims about selecting and placing with the pointer                     *)

\* The last event was a pointer-down whose picked mesh is the plane of a
\* marker (every movement observer keeps the picked mesh until pointer-up).
BodyPicked ==
    /\ lastOp.op = "pointerdown"
    /\ lastOp.id \in DOMAIN planMarkers
    /\ planMarkers[lastOp.id].initialPickedMesh = Some(Body(lastOp.id))

\* C14 (as stated): a pointer-down whose picked mesh is a marker's body makes
\* that marker the selected one in the plan view and in the store, whether an
\* add command is pending, was consumed by a placement or was never given.
C14_BodyClickSelects ==
    BodyPicked =>
        /\ selectedMarkerId = lastOp.id
        /\ \E i \in DOMAIN markers : markers[i].id = lastOp.id /\ markers[i].isSelected

\* C15 (as stated): the plan view creates a marker only at a pointer-down that
\* picks no mesh while the add-roof observer is registered; a pointer-down
\* whose picked mesh is a marker's body or one of its handles creates none.
C15_OnlyEmptyPickCreates ==
    [][created' # created =>
          /\ addObserver
          /\ lastOp'.op = "pointerdown"
          /\ lastOp'.id = NullId]_vars

---------------------------------------------------------------------------
(* Claims about removal and the model view                                 *)

\* Nothing is left of marker id: no store entry, no marker record with its
\* handles and controllers in the plan view, no selection of it and no house.
Gone(id) ==
    /\ \A i \in DOMAIN markers : markers[i].id # id
    /\ id \notin DOMAIN planMarkers
    /\ selectedMarkerId # id
    /\ id \notin DOMAIN houses

\* C16 (as stated): after removeMarker(id), or clearMarkers, and its
\* broadcast, nothing is left of the marker in the store, the plan view and
\* the model view.
C16_RemovedEverywhere ==
    /\ lastOp.op = "removeMarker" => Gone(lastOp.id)
    /\ lastOp.op = "clearMarkers" => \A id \in 1..MaxMarkers : Gone(id)

\* The last event was the pointer-up that ended a resize gesture.
ResizeEnded == lastOp.op \in {"cornerEnd", "edgeEnd"} /\ lastOp.id # NullId

\* The entries for marker id in the snapshot the model view processed last.
lastSeen(id) ==
    {seen[ModelListener][i] : i \in {j \in DOMAIN seen[ModelListener] :
                                          seen[ModelListener][j].id = id}}

\* The house stands where the transform says, within the epsilon.
housePlaced(house, t) ==
    /\ Abs(house.position.x - t.position.x) <= EPS
    /\ Abs(house.position.z - t.position.z) <= EPS

\* C17 (as stated): when a resize gesture has ended and the model view has
\* processed its final snapshot (isResizing = false), the house's x and z
\* equal the marker's position in that snapshot within the epsilon.
C17_HouseAtMarkerAfterResize ==
    ResizeEnded =>
        \A t \in lastSeen(lastOp.id) :
            (~t.isResizing /\ t.id \in DOMAIN houses) => housePlaced(houses[t.id], t)

\* The snapshot the model view processed last.
lastSnapshot == {seen[ModelListener][i] : i \in DOMAIN seen[ModelListener]}

\* The house of id as it was before that snapshot: a house the snapshot made
\* is the root createHouseRoot returned.
houseBefore(id, roofType) ==
    IF id \in DOMAIN housesBefore THEN housesBefore[id] ELSE createHouse(roofType)

\* C18: when the model view has processed a snapshot whose isResizing is true
\* for a marker, the house's position is exactly what it was before the
\* snapshot and its positionLocked is true.
C18_ResizingSnapshotLocksPosition ==
    \A t \in lastSnapshot :
        t.isResizing =>
            /\ houses[t.id].position = houseBefore(t.id, t.roofType).position
            /\ houses[t.id].positionLocked

\* A snapshot with isResizing = true was processed for a house that was not
\* locked, and the marker's position in it is not the house's.
C18_Witness ==
    \E t \in lastSnapshot :
        /\ t.isResizing
        /\ t.id \in DOMAIN housesBefore
        /\ ~housesBefore[t.id].positionLocked
        /\ ~housePlaced(houses[t.id], t)

\* C19: after the model view has processed a snapshot, every house of a
\* marker in it has the snapshot's scaleX as scaling.x, its scaleY as
\* scaling.z and its rotationY as rotation.y, locked or not, resizing or not.
C19_ScaleAndRotationTrackSnapshot ==
    \A t \in lastSnapshot :
        /\ houses[t.id].scaling.x = t.scaleX
        /\ houses[t.id].scaling.z = t.scaleY
        /\ houses[t.id].rotationY = t.rotationY

\* A house that was locked before the last snapshot, and still is, got a new
\* scaling from it.
C19_Witness ==
    \E t \in lastSnapshot :
        /\ t.id \in DOMAIN housesBefore
        /\ housesBefore[t.id].positionLocked
        /\ houses[t.id].positionLocked
        /\ housesBefore[t.id].scaling # houses[t.id].scaling

---------------------------------------------------------------------------
(* Claims about the render loop                                            *)

\* The markers whose resize controller has one of its two flags set.
resizingMarkers ==
    {m \in DOMAIN planMarkers : planMarkers[m].isResizing \/ planMarkers[m].isResizingEdge}

\* The store holds marker m as the plan view has it now, marked as resizing.
publishedLive(m) ==
    \E i \in DOMAIN markers :
        /\ markers[i].id = m
        /\ markers[i].isResizing
        /\ heap[markers[i].position] = planMarkers[m].position
        /\ markers[i].scaleX = planMarkers[m].scaling.x
        /\ markers[i].scaleY = planMarkers[m].scaling.y

\* C20: at a before-render tick every marker whose resize controller reports
\* getIsResizing() = true is written to the store with isResizing = true and
\* its live position and scale, and nothing else is written: the store
\* broadcasts once per such marker, and not at all when there is none.
C20_TickPublishesWhileResizing ==
    lastOp.op = "render" =>
        /\ \A m \in resizingMarkers : publishedLive(m)
        /\ \A l \in ListenerIds : delivered[l] = Cardinality(resizingMarkers)

\* A tick during an edge gesture that has moved the marker.
C20_Witness ==
    /\ lastOp.op = "render"
    /\ gesture.kind = "edge" /\ gesture.moved
    /\ \E m \in DOMAIN planMarkers : planMarkers[m].isResizingEdge /\ publishedLive(m)
    /\ delivered[ModelListener] = 1

---------------------------------------------------------------------------
(* Claims about what the plan view publishes                               *)

\* C22: every store entry the plan view wrote has widthMeters = scaleX * 10
\* and heightMeters = scaleY * 10.
C22_MetersFollowScale ==
    \A i \in DOMAIN markers :
        /\ markers[i].widthMeters = markers[i].scaleX * 10
        /\ markers[i].heightMeters = markers[i].scaleY * 10

\* A marker whose two scales were changed by a resize is in the store.
C22_Witness ==
    \E i \in DOMAIN markers :
        /\ markers[i].scaleX # Fix
        /\ markers[i].scaleY # Fix
        /\ markers[i].scaleX # markers[i].scaleY
        /\ markers[i].id \in DOMAIN planMarkers
        /\ markers[i].scaleX = planMarkers[markers[i].id].scaling.x

---------------------------------------------------------------------------
(* Claims about dragging                                                   *)

\* A rotation gesture is under way on the marker the gesture is about.
Rotating ==
    /\ gesture.kind = "rotation"
    /\ gesture.m \in DOMAIN planMarkers
    /\ planMarkers[gesture.m].dragging

\* C29: throughout a rotation gesture the marker's position, and its scale,
\* are what they were at the gesture's pointer-down; only rotationY differs.
C29_RotationKeepsPosition ==
    Rotating =>
        /\ planMarkers[gesture.m].position = gesture.p0
        /\ planMarkers[gesture.m].scaling.x = gesture.sx0
        /\ planMarkers[gesture.m].scaling.y = gesture.sy0

\* After a tick of a rotation gesture that has turned the marker while the
\* pointer is over its plane and the drag behaviour has a target elsewhere.
C29_Witness ==
    /\ Rotating
    /\ lastOp.op = "render"
    /\ gesture.moved
    /\ planMarkers[gesture.m].rotationY # gesture.r0
    /\ planMarkers[gesture.m].moving
    /\ planMarkers[gesture.m].targetPosition # planMarkers[gesture.m].position
    /\ scenePick(planMarkers, planMarkers[gesture.m].lastDragPosition) = Some(Body(gesture.m))

\* What scene.pick finds under the pointer of the drag of marker m.
underPointer(m) == scenePick(planMarkers, planMarkers[m].lastDragPosition)

\* The Movement controller of m is enabled and the mesh picked at
\* pointer-down is not one of the excluded meshes.
mayDrag(m) ==
    /\ ~planMarkers[m].isDisabled
    /\ \/ planMarkers[m].initialPickedMesh = Null
       \/ planMarkers[m].initialPickedMesh[1] \notin excludedMeshes(m)

\* C26 (as stated): an enabled Movement controller whose gesture did not
\* begin on an excluded mesh validates every move of a drag in progress,
\* whatever is under the pointer, a mesh or none; with no drag in progress it
\* validates a move only if its own marker is top-most under the pointer.
C26_DragInProgressValidated ==
    \A m \in DOMAIN planMarkers :
        /\ (mayDrag(m) /\ planMarkers[m].isDragging)
              => validateDrag(planMarkers[m], m, underPointer(m))
        /\ (~planMarkers[m].isDragging /\ validateDrag(planMarkers[m], m, underPointer(m)))
              => underPointer(m) = Some(Body(m))

\* Every mesh a pointer can pick, and none.
AllPicks ==
    {Null} \cup {Some(h) : h \in UNION {excludedMeshes(m) \cup {Body(m)} : m \in MarkerIds}}

\* The gesture under way began on a handle of its marker.
HandleGesture ==
    /\ gesture.kind \in {"corner", "edge", "rotation"}
    /\ gesture.m \in DOMAIN planMarkers

\* C27: while the Movement controller is disabled, and when the mesh picked
\* at pointer-down is one of its excluded meshes (a corner, edge or rotation
\* handle), validateDrag refuses whatever is under the pointer; and in a
\* gesture that began on a handle no tick of the drag behaviour has moved
\* the marker.
C27_HandleGestureNeverDrags ==
    /\ \A m \in DOMAIN planMarkers :
           (\/ planMarkers[m].isDisabled
            \/ /\ planMarkers[m].initialPickedMesh # Null
               /\ planMarkers[m].initialPickedMesh[1] \in excludedMeshes(m))
               => \A picked \in AllPicks : ~validateDrag(planMarkers[m], m, picked)
    /\ HandleGesture => gesture.ticks = 0

\* After a tick of a corner or edge gesture: the controller is disabled, the
\* drag behaviour has a target away from the marker and the pointer is
\* over the marker's plane.
C27_Witness ==
    /\ HandleGesture
    /\ gesture.kind # "rotation"
    /\ gesture.moved
    /\ lastOp.op = "render"
    /\ planMarkers[gesture.m].isDisabled
    /\ planMarkers[gesture.m].moving
    /\ planMarkers[gesture.m].targetPosition # planMarkers[gesture.m].position
    /\ underPointer(gesture.m) = Some(Body(gesture.m))

\* The last event ended a gesture on a marker the plan view holds: a drag of
\* its plane, a rotation (by pointer-up or double-tap) or a resize.
GestureEnded ==
    /\ lastOp.op \in {"bodyEnd", "rotationEnd", "cornerEnd", "edgeEnd", "doubletap"}
    /\ lastOp.id \in DOMAIN planMarkers

\* The store holds marker m with the position, rotation and scale the plan
\* view has for it now.
storedLive(m) ==
    \E i \in DOMAIN markers :
        /\ markers[i].id = m
        /\ heap[markers[i].position] = planMarkers[m].position
        /\ markers[i].rotationY = planMarkers[m].rotationY
        /\ markers[i].scaleX = planMarkers[m].scaling.x
        /\ markers[i].scaleY = planMarkers[m].scaling.y

\* C21: the event that ends a move, rotate or resize gesture writes the
\* marker's live position, rotationY and scale to the store, and after the
\* pointer-up that ends a resize gesture the store entry has
\* isResizing = false.
C21_FinalSnapshotIsLive ==
    GestureEnded =>
        /\ storedLive(lastOp.id)
        /\ \A l \in ListenerIds : delivered[l] >= 1
        /\ lastOp.op \in {"cornerEnd", "edgeEnd"} =>
               \A i \in DOMAIN markers : markers[i].id = lastOp.id => ~markers[i].isResizing

\* A drag of the plane that moved the marker has ended.
C21_Witness ==
    /\ GestureEnded
    /\ lastOp.op = "bodyEnd"
    /\ planMarkers[lastOp.id].position.x # 0
    /\ storedLive(lastOp.id)

---------------------------------------------------------------------------
(* Claims about the controllers' contracts                                 *)

\* C28 (as stated): the Movement controller of a marker is disabled exactly
\* while a resize gesture is active on the marker, also after
\* ResizeBehaviour.detach() was called in the middle of a gesture.
C28_DisabledIffResizing ==
    \A m \in DOMAIN planMarkers :
        planMarkers[m].isDisabled <=> getIsResizing(planMarkers[m])


\* The step is a pointer-down on one of the corner or edge handles of m.
handleDown(m) ==
    /\ lastOp'.op = "pointerdown" /\ lastOp'.id = m
    /\ planMarkers'[m].initialPickedMesh # Null
    /\ planMarkers'[m].initialPickedMesh[1].kind \in {"corner", "edge"}

\* C23: a pointer-down on a corner or edge handle calls the controller's
\* select function for its marker; while the marker is not the selected one
\* afterwards, the gesture is refused: no step sets a resize flag, disables
\* the Movement controller or records an anchor, and no pointer-move or
\* frame changes the marker's scale or position.
C23_RefusedGestureChangesNothing ==
    [][\A m \in DOMAIN planMarkers \cap DOMAIN planMarkers' :
          /\ (handleDown(m) /\ planMarkers[m].selectMarkerFn = "selectMarker")
                 => selectedMarkerId' = m /\ getIsResizing(planMarkers'[m])
          /\ selectedMarkerId' # m
                 => /\ ~planMarkers'[m].isResizing /\ ~planMarkers'[m].isResizingEdge
                    /\ ~planMarkers'[m].isDisabled
                    /\ planMarkers'[m].fixedCornerWorld = Null
                    /\ planMarkers'[m].fixedEdgeCenter = Null
                    /\ planMarkers'[m].scaling = planMarkers[m].scaling
                    /\ planMarkers'[m].position = planMarkers[m].position]_vars
C23_Witness ==
    /\ selectedMarkerId # MarkerOne
    /\ pointerIsDown
    /\ planMarkers[MarkerOne].initialPickedMesh # Null
    /\ planMarkers[MarkerOne].initialPickedMesh[1].kind \in {"corner", "edge"}
    /\ planMarkers[MarkerOne].moving
    /\ lastOp.op = "render"


\* The rotation controller's flag and gesture baseline, the marker's
\* transform, the camera's attachment, the store and the calls of its
\* listeners are after the step what they were before it.
controllerState(mk) ==
    [mk EXCEPT !.initialPickedMesh = Null]
nothingChanges ==
    /\ DOMAIN planMarkers' = DOMAIN planMarkers
    /\ \A m \in DOMAIN planMarkers :
           controllerState(planMarkers'[m]) = controllerState(planMarkers[m])
    /\ cameraAttached' = cameraAttached
    /\ selectedMarkerId' = selectedMarkerId
    /\ markers' = markers /\ heap' = heap /\ seen' = seen
    /\ delivered' = NoCalls

\* C24 (as stated): a placement click, a rotation pointer-down or
\* pointer-move and a resize pointer-move whose projection on the ground
\* plane yields no intersection changes nothing.
C24_NoIntersectionChangesNothing ==
    [][lastOp'.op \in {"pointerdownOff", "pointermoveOff"} => nothingChanges]_vars


\* The callbacks that ran for the event c in the step, in the order they ran.
ranFor(c) ==
    LET es == SelectSeq(lastOp'.cbs, LAMBDA e : e[1] = c)
    IN  [i \in DOMAIN es |-> es[i][2]]
\* The step is the event c of a controller of the marker the step is about.
happens(c) ==
    CASE c = "moveStart" -> lastOp'.op = "pointerdown" /\ gesture'.kind = "body"
      [] c = "moveEnd" -> lastOp'.op = "bodyEnd"
      [] c = "rotationStart" -> lastOp'.op = "pointerdown" /\ gesture'.kind = "rotation"
      [] c = "rotationEnd" -> lastOp'.op = "rotationEnd"
                              \/ (lastOp'.op = "doubletap" /\ lastOp'.id # NullId)
      [] c = "resizeEnd" -> lastOp'.op \in {"cornerEnd", "edgeEnd"}

\* C25 (as stated): the start and end events of the Movement, Rotation and
\* Resize controllers invoke every callback registered for them exactly
\* once, in registration order.
C25_EveryCallbackInOrder ==
    [][\A c \in Events :
          happens(c) => ranFor(c) = planMarkers[lastOp'.id].registered[c]]_vars


---------------------------------------------------------------------------
(* Claims about the geometry of a corner resize                            *)

\* The extent of marker mk's corner resize along a local axis, the pointer at
\* ground point P and the anchor at A: the projection of P - A, floored.
extentAlong(P, A, axis) == Max(Abs(Dot(subtract(P, A), axis)), MIN_SIZE)
\* The centre: from the anchor half the extent along each local axis, to the
\* pointer's side.
sideOf(P, A, axis) == IF Dot(subtract(P, A), axis) >= 0 THEN 1 ELSE -1
centreFor(P, A, axisX, axisZ) ==
    add(add(A, scale(axisX, sideOf(P, A, axisX) * (extentAlong(P, A, axisX) \div 2))),
        scale(axisZ, sideOf(P, A, axisZ) * (extentAlong(P, A, axisZ) \div 2)))

\* C30: after a corner-resize move with the anchor at A and the pointer at P
\* the marker's width is max(|(P - A) . widthAxis|, 0.5) and its height
\* likewise, its scale is that size / 10, its centre is A plus the signed
\* half extents along the local axes, and what the next frame publishes as
\* widthMeters and heightMeters is twice the half extents.
C30_CornerResizeGeometry ==
    CornerMoved =>
        LET mk == planMarkers[gesture.m]
            A == gesture.anchor
            P == gesture.last
            axisX == getDirectionRight(mk)
            axisZ == axisZOf(axisX)
            c == centreFor(P, A, axisX, axisZ)
        IN  /\ mk.scaling.x * BASE_WIDTH = extentAlong(P, A, axisX)
            /\ mk.scaling.y * BASE_HEIGHT = extentAlong(P, A, axisZ)
            /\ mk.scaling.x = extentAlong(P, A, axisX) \div BASE_WIDTH
            /\ mk.scaling.y = extentAlong(P, A, axisZ) \div BASE_HEIGHT
            /\ mk.position.x = c.x /\ mk.position.z = c.z
            /\ lastOp.op = "render" =>
                   \E i \in DOMAIN markers :
                       /\ markers[i].id = gesture.m
                       /\ markers[i].widthMeters
                              = 2 * Abs(Dot(subtract(mk.position, A), axisX))
                       /\ markers[i].heightMeters
                              = 2 * Abs(Dot(subtract(mk.position, A), axisZ))

\* A frame after a corner move on a roof turned half
\* round, the pointer nearer than 0.5 to the anchor along the width axis and
\* on its negative side: the width is the floor.
C30_Witness ==
    /\ CornerMoved /\ lastOp.op = "render"
    /\ planMarkers[gesture.m].rotationY = 2
    /\ LET axisX == getDirectionRight(planMarkers[gesture.m])
           d == Dot(subtract(gesture.last, gesture.anchor), axisX)
       IN  d < 0 /\ Abs(d) < MIN_SIZE
    /\ planMarkers[gesture.m].scaling.x * BASE_WIDTH = MIN_SIZE
    /\ planMarkers[gesture.m].scaling.y # gesture.sy0


---------------------------------------------------------------------------
(* Claims about the model view's houses                                    *)

\* The snapshot's position differs in x or z by more than the epsilon from
\* that of the snapshot the house was given before.
deltaFrom(before, t) ==
    /\ before.lastPos # Null
    /\ \/ Abs(t.position.x - before.lastPos[1].x) > EPS
       \/ Abs(t.position.z - before.lastPos[1].z) > EPS

\* C31: positionLocked becomes true exactly when a snapshot with isResizing =
\* true is processed, becomes false only when a snapshot with isResizing =
\* false is processed whose x or z differs by more than 1e-3 from the
\* position of the snapshot processed before, and is left as it was by a
\* snapshot with isResizing = false and no such difference.
C31_LockFollowsSnapshots ==
    \A t \in lastSnapshot :
        LET before == houseBefore(t.id, t.roofType)
            same == t.id \in DOMAIN housesBefore
                    /\ housesBefore[t.id].roofType = t.roofType
            after == houses[t.id]
        IN  same =>
              /\ t.isResizing => after.positionLocked
              /\ (~before.positionLocked /\ after.positionLocked) => t.isResizing
              /\ (before.positionLocked /\ ~after.positionLocked)
                     => (~t.isResizing /\ deltaFrom(before, t))
              /\ (~t.isResizing /\ ~deltaFrom(before, t))
                     => after.positionLocked = before.positionLocked

\* A locked house was given a snapshot with isResizing = false two epsilons
\* from the one before, and is unlocked.
C31_Witness ==
    \E t \in lastSnapshot :
        /\ t.id \in DOMAIN housesBefore
        /\ housesBefore[t.id].roofType = t.roofType
        /\ housesBefore[t.id].positionLocked
        /\ ~t.isResizing
        /\ deltaFrom(housesBefore[t.id], t)
        /\ ~houses[t.id].positionLocked


\* C32: after a broadcast has been processed the model view holds one house
\* for every marker id of the snapshot and none for another id; a house
\* whose roof type is not the snapshot's was rebuilt, so that it is what a
\* new house given the snapshot is (lastPos and positionLocked start anew),
\* and any other house is the house it was, given the snapshot.
C32_OneHousePerMarker ==
    /\ DOMAIN houses = {t.id : t \in lastSnapshot}
    /\ \A t \in lastSnapshot :
           t.id \in DOMAIN housesBefore =>
               IF housesBefore[t.id].roofType # t.roofType
               THEN houses[t.id] = updateHouseTransform(createHouse(t.roofType), t)
               ELSE houses[t.id] = updateHouseTransform(housesBefore[t.id], t)

\* A locked house of one roof type was given a snapshot with the other roof
\* type and is now an unlocked house of that type, while the house of
\* another marker was kept.
C32_Witness ==
    /\ \E t \in lastSnapshot :
           /\ t.id \in DOMAIN housesBefore
           /\ housesBefore[t.id].roofType # t.roofType
           /\ housesBefore[t.id].positionLocked
           /\ ~houses[t.id].positionLocked
           /\ houses[t.id].roofType = t.roofType
    /\ \E t \in lastSnapshot :
           t.id \in DOMAIN housesBefore /\ housesBefore[t.id].roofType = t.roofType


---------------------------------------------------------------------------
(* Claims about the life of a gesture                                      *)

\* The step takes marker m from the plan view, which detaches its controllers.
detached(m) ==
    /\ m \notin DOMAIN planMarkers'
    /\ lastOp'.op \in {"removeMarker", "clearMarkers"}

\* C33: a resize gesture that has started stays active through pointer-moves
\* and frames: only a pointer-up or the detach of the controller ends it; a
\* rotation gesture is ended only by a pointer-up, a double-tap or the
\* detach.
C33_GestureStaysActive ==
    [][\A m \in DOMAIN planMarkers :
          /\ (getIsResizing(planMarkers[m])
              /\ (m \in DOMAIN planMarkers' => ~getIsResizing(planMarkers'[m])))
                 => (lastOp'.op \in {"cornerEnd", "edgeEnd", "resizeDetach"} \/ detached(m))
          /\ (planMarkers[m].dragging
              /\ (m \in DOMAIN planMarkers' => ~planMarkers'[m].dragging))
                 => (lastOp'.op \in {"rotationEnd", "doubletap"} \/ detached(m))]_vars

\* A frame during a corner resize, after a pointer-move: the gesture is
\* still active.
C33_Witness ==
    /\ CornerMoved
    /\ lastOp.op = "render"
    /\ planMarkers[gesture.m].isResizing


\* The Movement controller's callback for the event c ran in the step.
ran(c) == \E i \in DOMAIN lastOp'.cbs : lastOp'.cbs[i][1] = c

\* C34 (as stated): the Movement controller's drag-end callback runs only for
\* a gesture whose drag start the controller has seen, isDragging being true
\* from the start to the end, also when the engine drag began on one of the
\* marker's handles; and the start of a drag runs the start callback.
C34_StartBeforeEnd ==
    [][/\ ran("moveEnd") => planMarkers[MarkerOne].isDragging
       /\ (~planMarkers[MarkerOne].isDragging /\ planMarkers'[MarkerOne].isDragging)
              => (ran("moveStart") \/ planMarkers[MarkerOne].onDragStartCallback = Null)]_vars


---------------------------------------------------------------------------
(* Claims about add commands                                               *)

\* C35: a step that creates a marker is a pointer-down with the add-roof
\* observer registered; it creates one marker, removes the observer, and
\* leaves the new marker selected with its handles, and no other marker's,
\* enabled, so that no marker is created again before the next add command;
\* a pointer-down on a marker's body while the observer is registered selects
\* that marker, creates none and leaves command and observer as they were.
C35_OneMarkerPerCommand ==
    [][/\ created' # created =>
              /\ addObserver /\ ~addObserver'
              /\ lastOp'.op = "pointerdown"
              /\ created' = created + 1
              /\ DOMAIN planMarkers' = DOMAIN planMarkers \cup {created'}
              /\ selectedMarkerId' = created'
              /\ \A m \in DOMAIN planMarkers' : planMarkers'[m].handlesOn <=> m = created'
       /\ (addObserver /\ BodyPicked') =>
              /\ selectedMarkerId' = lastOp'.id
              /\ created' = created
              /\ addObserver' /\ addCommand' = addCommand]_vars

\* With two markers placed and a third add command pending, a pointer-down
\* on the body of the marker that was not selected has selected it.
C35_Witness ==
    /\ created = 2 /\ addObserver
    /\ BodyPicked /\ lastOp.id = 1
    /\ selectedMarkerId = 1
    /\ planMarkers[1].handlesOn /\ ~planMarkers[2].handlesOn


---------------------------------------------------------------------------
(* Claims about the first revision of the store                            *)

\* C36: after updateMarker(m) of the first store revision, if the list held
\* an entry with m's id the list has the same length, that entry carries m's
\* fields and every other entry is as it was; otherwise the list is the old
\* list with m appended.
C36_UpdatesMatchOrAppends ==
    lastOp.op = "updateMarkerFirst" =>
        LET after == DeepValue(markers, heap)
            m == lastOp.t
        IN  IF \E i \in DOMAIN pre : pre[i].id = m.id
            THEN /\ Len(after) = Len(pre)
                 /\ \A i \in DOMAIN pre :
                        after[i] = IF pre[i].id = m.id THEN m ELSE pre[i]
            ELSE after = Append(pre, m)

---------------------------------------------------------------------------
(* Claims about removal from the store                                     *)

\* The ids of the store's entries.
storedIds(ms) == {ms[i].id : i \in DOMAIN ms}

\* C37: a step of removeMarker(id) leaves the store without an entry for id
\* and a step of clearMarkers leaves it empty, whatever the listeners and the
\* controllers' callbacks do during the broadcast; and the id of a marker
\* that was placed and that the store no longer holds is in the store after
\* no step.
C37_RemovedStaysRemoved ==
    [][/\ lastOp'.op = "removeMarker" => lastOp'.id \notin storedIds(markers')
       /\ lastOp'.op = "clearMarkers" => markers' = <<>>
       /\ \A id \in 1..created :
              id \notin storedIds(markers) => id \notin storedIds(markers')]_vars


---------------------------------------------------------------------------
(* Claims about nested broadcasts                                          *)

\* C38: when a store mutation has returned, nested broadcasts of listeners
\* that called the store from inside their callback included, the snapshot
\* each subscribed listener was handed last equals the store's list.
C38_NoStaleSnapshot ==
    \A i \in DOMAIN listeners : seen[listeners[i]] = DeepValue(markers, heap)


\* C39: when the model view has processed a snapshot whose isResizing is
\* false for a marker and the house's positionLocked is false, the house's x
\* and z are within the epsilon of the snapshot's position, also after a run
\* of snapshots each within the epsilon of the one before.
C39_UnlockedHouseAtSnapshot ==
    \A t \in lastSnapshot :
        (~t.isResizing /\ ~houses[t.id].positionLocked) => housePlaced(houses[t.id], t)


---------------------------------------------------------------------------
(* Claims about resizing and selection                                     *)

\* C40: a marker whose resize controller reports a gesture under way
\* (getIsResizing() true) is the plan view's selected marker, and the entry
\* published for it carries isSelected = true, in every mode of the plan view.
C40_ResizingIsSelected ==
    \A m \in DOMAIN planMarkers :
        getIsResizing(planMarkers[m]) =>
            /\ selectedMarkerId = m
            /\ \A i \in DOMAIN markers : markers[i].id = m => markers[i].isSelected

=============================================================================
